---- MODULE Spec2Model ----
(***************************************************************************)
(* Model of the scene scorer SceneAnalyzer.classify_scene (api/scene.py).  *)
(*                                                                         *)
(* Numbers.  Confidences and saturation are carried in hundredths          *)
(* (80 stands for 0.80); scores are carried in thousandths (1200 stands    *)
(* for 1.2), so that the weights 1.5 and 0.8, the bonuses 0.5 and 0.1, the *)
(* threshold 0.1, the clamp 1.0 and the epsilon 0.001 are all integers.    *)
(* A distribution confidence score / total_score is kept as the fraction   *)
(* [num |-> score, den |-> total_score].                                   *)
(*                                                                         *)
(* Optional arguments.  None is the empty sequence <<>> and a given value  *)
(* v is <<v>>.                                                             *)
(***************************************************************************)
EXTENDS Integers, Sequences, FiniteSets, TLC

VARIABLES classifications, image_features, detected_objects,
          pc, ci, di, scene_scores, matched_keywords, result

\* Concurrent invocations of classify_scene: the frame (arguments, position,
\* return value) and the accumulators of each.
VARIABLES frames, store

\* ModelManager (api/yolo.py): the class attribute _models, the threads that
\* are inside get_model, the number of YOLO(...) constructions per task and
\* the handles get_model has returned per task.
VARIABLES models, callers, constructions, handles

\* Vendor access tokens (api/wechat.py, api/baidu_free.py): the clock
\* time.time() and how often it has been advanced, the configured keys, the
\* WechatConfig cache attributes, the calls in flight, and per kind of token
\* the requests sent to the vendor and the tokens the vendor has granted.
VARIABLES now, ticks, keys, wechat, coros, sent, granted

\* Request handlers (api/*.py): the request being handled, the position in
\* the handler (0 when no request is in progress), the calls made for it so
\* far with their outcomes, and the response that left the handler.
VARIABLES request, at, log, response

\* analyze_image_features (api/scene.py): the image it is given, as the
\* quantities the code measures on it, and the dict it returns.
VARIABLES input_image, feature_dict

\* Classification (api/yolo.py, api_server.py, main.py): the class
\* probabilities of the model's result, the requested top_k and the list of
\* classifications returned.
VARIABLES probs, top_k, top_results

\* A base64 request field on its way from the pydantic validator to the
\* decoder of its handler: the field as the lengths of its comma-separated
\* segments, the handler that receives it, the verdict of the validator and
\* the substring of the field the handler decodes.
VARIABLES field_value, handler, validated, payload

\* One call of read_image_from_base64: the input string with what each
\* library makes of it, the position in the function, the library calls made
\* so far, and what left the function (an image or an exception).
VARIABLES base64_input, read_at, attempts, read_result

\* One video_pose_estimation request: its skip_frames and return_video, the
\* number of frames of the clip, the position in the handler, the read
\* position of the capture, the loop counters and lists, the frames written
\* to the output video, the temporary files, and what left the handler.
VARIABLES video_params, clip_frames, vpc, cap_pos, frame_idx, processed_frames, all_poses, written, temp_files, video_response

\* The question_segment branch of the Baidu OCR handler: the recognised
\* lines (each the sequence of its characters), the line the loop is at,
\* the loop variables, and the data of the response.
VARIABLES words_result, line_no, questions, current_question, question_index, ocr_data

scorerVars == <<classifications, image_features, detected_objects,
                pc, ci, di, scene_scores, matched_keywords, result>>

invVars == <<frames, store>>

mmVars == <<models, callers, constructions, handles>>

tokVars == <<now, ticks, keys, wechat, coros, sent, granted>>

reqVars == <<request, at, log, response>>

featVars == <<input_image, feature_dict>>

topVars == <<probs, top_k, top_results>>

payVars == <<field_value, handler, validated, payload>>

readVars == <<base64_input, read_at, attempts, read_result>>

vidVars == <<video_params, clip_frames, vpc, cap_pos, frame_idx, processed_frames, all_poses, written, temp_files, video_response>>

ocrVars == <<words_result, line_no, questions, current_question, question_index, ocr_data>>

vars == <<scorerVars, invVars, mmVars, tokVars, reqVars, featVars, topVars,
          payVars, readVars, vidVars, ocrVars>>

\* What each component leaves alone.
scorerOthers == <<invVars, mmVars, tokVars, reqVars, featVars, topVars,
                  payVars, readVars, vidVars, ocrVars>>

invOthers == <<scorerVars, mmVars, tokVars, reqVars, featVars, topVars,
               payVars, readVars, vidVars, ocrVars>>

mmOthers == <<scorerVars, invVars, tokVars, reqVars, featVars, topVars,
              payVars, readVars, vidVars, ocrVars>>

tokOthers == <<scorerVars, invVars, mmVars, reqVars, featVars, topVars,
               payVars, readVars, vidVars, ocrVars>>

reqOthers == <<scorerVars, invVars, mmVars, tokVars, featVars, topVars,
               payVars, readVars, vidVars, ocrVars>>

featOthers == <<scorerVars, invVars, mmVars, tokVars, reqVars, topVars,
                payVars, readVars, vidVars, ocrVars>>

topOthers == <<scorerVars, invVars, mmVars, tokVars, reqVars, featVars,
               payVars, readVars, vidVars, ocrVars>>

payOthers == <<scorerVars, invVars, mmVars, tokVars, reqVars, featVars,
               topVars, readVars, vidVars, ocrVars>>

readOthers == <<scorerVars, invVars, mmVars, tokVars, reqVars, featVars,
                topVars, payVars, vidVars, ocrVars>>

vidOthers == <<scorerVars, invVars, mmVars, tokVars, reqVars, featVars,
               topVars, payVars, readVars, ocrVars>>

ocrOthers == <<scorerVars, invVars, mmVars, tokVars, reqVars, featVars,
               topVars, payVars, readVars, vidVars>>

\* The components that a specification does not exercise stay as they are
\* before their first use.
ScorerIdle ==
    /\ classifications = <<>>
    /\ image_features = <<>>
    /\ detected_objects = <<>>
    /\ pc = "idle"
    /\ ci = 1
    /\ di = 1
    /\ scene_scores = <<>>
    /\ matched_keywords = <<>>
    /\ result = <<>>

InvIdle ==
    /\ frames = <<>>
    /\ store = <<>>

ModelsIdle ==
    /\ models = <<>>
    /\ callers = <<>>
    /\ constructions = <<>>
    /\ handles = <<>>

TokensIdle ==
    /\ now = 0
    /\ ticks = 0
    /\ keys = <<>>
    /\ wechat = <<>>
    /\ coros = <<>>
    /\ sent = <<>>
    /\ granted = <<>>

RequestsIdle ==
    /\ request = <<>>
    /\ at = 0
    /\ log = <<>>
    /\ response = <<>>

FeaturesIdle ==
    /\ input_image = <<>>
    /\ feature_dict = <<>>

TopKIdle ==
    /\ probs = <<>>
    /\ top_k = 0
    /\ top_results = <<>>

PayloadIdle ==
    /\ field_value = <<>>
    /\ handler = ""
    /\ validated = ""
    /\ payload = <<>>

ReadImageIdle ==
    /\ base64_input = <<>>
    /\ read_at = ""
    /\ attempts = <<>>
    /\ read_result = <<>>

VideoIdle ==
    /\ video_params = <<>>
    /\ clip_frames = 0
    /\ vpc = ""
    /\ cap_pos = 0
    /\ frame_idx = 0
    /\ processed_frames = 0
    /\ all_poses = <<>>
    /\ written = <<>>
    /\ temp_files = <<>>
    /\ video_response = <<>>

OcrIdle ==
    /\ words_result = <<>>
    /\ line_no = 0
    /\ questions = <<>>
    /\ current_question = <<>>
    /\ question_index = 0
    /\ ocr_data = <<>>

(***************************************************************************)
(* Bounds of the explored inputs.                                          *)
(***************************************************************************)
MaxItems == 2

ClassificationNames == {"Dog", "car", "category", "a"}

ClassificationConfidences == {5, 10, 90}

DetectionNames == {"person", "Car", "a"}

DetectionConfidences == {10, 80}

InputSaturations == {50, 70}

(***************************************************************************)
(* The taxonomy SCENE_TYPES: the scene types in insertion order and the    *)
(* keyword list of each.                                                   *)
(***************************************************************************)
SceneOrder ==
    <<"portrait", "animal", "cityscape", "nature", "food", "vehicle",
      "indoor", "sports", "electronics", "art", "text", "unknown">>

Scenes == {SceneOrder[k] : k \in 1..Len(SceneOrder)}

SCENE_TYPES ==
    [portrait    |-> <<"person", "face", "portrait", "people", "human",
                       "man", "woman", "child", "baby">>,
     animal      |-> <<"dog", "cat", "bird", "fish", "horse", "elephant",
                       "bear", "zebra", "giraffe", "cow", "sheep", "tiger",
                       "lion", "monkey", "rabbit", "hamster", "pet">>,
     cityscape   |-> <<"skyscraper", "building", "tower", "bridge", "street",
                       "road", "traffic", "car", "bus", "train",
                       "architecture", "city", "urban", "downtown",
                       "office">>,
     nature      |-> <<"mountain", "lake", "river", "ocean", "sea", "beach",
                       "forest", "tree", "flower", "garden", "sky", "cloud",
                       "sunset", "sunrise", "landscape", "grass", "field",
                       "valley">>,
     food        |-> <<"food", "pizza", "burger", "cake", "fruit",
                       "vegetable", "bread", "coffee", "drink", "meal",
                       "dinner", "breakfast", "lunch", "restaurant", "dish",
                       "cuisine">>,
     vehicle     |-> <<"car", "truck", "bus", "motorcycle", "bicycle",
                       "airplane", "boat", "ship", "train", "vehicle",
                       "automobile", "van">>,
     indoor      |-> <<"room", "furniture", "sofa", "chair", "table", "bed",
                       "lamp", "desk", "kitchen", "bathroom", "bedroom",
                       "living", "office", "interior">>,
     sports      |-> <<"ball", "football", "basketball", "tennis", "golf",
                       "baseball", "soccer", "swimming", "running", "sport",
                       "gym", "stadium", "athlete">>,
     electronics |-> <<"phone", "computer", "laptop", "keyboard", "mouse",
                       "screen", "monitor", "television", "camera",
                       "electronic", "device", "gadget">>,
     art         |-> <<"painting", "art", "drawing", "illustration",
                       "cartoon", "comic", "animation", "poster", "design",
                       "graphic">>,
     text        |-> <<"document", "paper", "book", "newspaper", "magazine",
                       "text", "letter", "sign", "poster", "menu",
                       "envelope", "notebook">>,
     unknown     |-> <<>>]

SceneIndex(scene) == CHOOSE k \in 1..Len(SceneOrder) : SceneOrder[k] = scene

(***************************************************************************)
(* Strings: str.lower() and the substring test  a in b.                    *)
(***************************************************************************)
LowerChar(c) ==
    CASE c = "A" -> "a" [] c = "B" -> "b" [] c = "C" -> "c" [] c = "D" -> "d"
      [] c = "E" -> "e" [] c = "F" -> "f" [] c = "G" -> "g" [] c = "H" -> "h"
      [] c = "I" -> "i" [] c = "J" -> "j" [] c = "K" -> "k" [] c = "L" -> "l"
      [] c = "M" -> "m" [] c = "N" -> "n" [] c = "O" -> "o" [] c = "P" -> "p"
      [] c = "Q" -> "q" [] c = "R" -> "r" [] c = "S" -> "s" [] c = "T" -> "t"
      [] c = "U" -> "u" [] c = "V" -> "v" [] c = "W" -> "w" [] c = "X" -> "x"
      [] c = "Y" -> "y" [] c = "Z" -> "z" [] OTHER -> c

RECURSIVE Lower(_)
Lower(s) ==
    IF Len(s) = 0 THEN s
    ELSE LowerChar(SubSeq(s, 1, 1)) \o Lower(SubSeq(s, 2, Len(s)))

StrIn(a, b) ==
    \E k \in 0..(Len(b) - Len(a)) : SubSeq(b, k + 1, k + Len(a)) = a

(***************************************************************************)
(* Small arithmetic helpers: min(), sum() and a slice prefix  xs[:n].      *)
(***************************************************************************)
Min(a, b) == IF a < b THEN a ELSE b

RECURSIVE SumUpTo(_, _)
SumUpTo(scores, k) ==
    IF k = 0 THEN 0 ELSE scores[SceneOrder[k]] + SumUpTo(scores, k - 1)

SumScores(scores) == SumUpTo(scores, Len(SceneOrder))

PrefixAll(xs, n) == xs

Prefix(xs, n) == SubSeq(xs, 1, Min(n, Len(xs)))

(***************************************************************************)
(* The nested loop  for scene_type, scene_info in SCENE_TYPES.items():     *)
(*                      for keyword in scene_info["keywords"]:             *)
(* as the sequence of (scene, keyword) pairs it visits, in visiting order. *)
(***************************************************************************)
RECURSIVE PairsFrom(_)
PairsFrom(k) ==
    IF k > Len(SceneOrder) THEN <<>>
    ELSE [j \in 1..Len(SCENE_TYPES[SceneOrder[k]]) |->
             [scene |-> SceneOrder[k],
              keyword |-> SCENE_TYPES[SceneOrder[k]][j]]]
         \o PairsFrom(k + 1)

TaxonomyLoop == PairsFrom(1)

\* scene_scores[scene_type] += gain, once per matching (scene, keyword) pair.
RECURSIVE Accumulate(_, _, _)
Accumulate(scores, hits, gain) ==
    IF Len(hits) = 0 THEN scores
    ELSE Accumulate([scores EXCEPT ![Head(hits).scene] = @ + gain],
                    Tail(hits), gain)

(***************************************************************************)
(* Step 2: one classification item.                                        *)
(***************************************************************************)
ClassificationMatchOneWay(keyword, class_name) == StrIn(keyword, class_name)

ClassificationMatch(keyword, class_name) ==
    StrIn(keyword, class_name) \/ StrIn(class_name, keyword)

ClassificationHits(class_name) ==
    SelectSeq(TaxonomyLoop, LAMBDA p : ClassificationMatch(p.keyword, class_name))

\* matched_keywords.append({...}), once per matching pair, in loop order.
MatchedTuples(hits, class_name, confidence) ==
    [k \in 1..Len(hits) |->
        [keyword |-> hits[k].keyword, class |-> class_name,
         scene |-> hits[k].scene, confidence |-> confidence]]

ClassificationGainHalf(confidence) == confidence * 5

ClassificationGain(confidence) == confidence * 10

(***************************************************************************)
(* Step 3: one detection item.                                             *)
(***************************************************************************)
DetectionMatchBothWays(keyword, obj_name) ==
    StrIn(keyword, obj_name) \/ StrIn(obj_name, keyword)

DetectionMatch(keyword, obj_name) == StrIn(keyword, obj_name)

DetectionHits(obj_name) ==
    SelectSeq(TaxonomyLoop, LAMBDA p : DetectionMatch(p.keyword, obj_name))

PersonBonusUnweighted(scene, obj_name, obj_conf) ==
    IF obj_name = "person" /\ scene = "portrait" THEN obj_conf * 10 ELSE 0

PersonBonus(scene, obj_name, obj_conf) ==
    IF obj_name = "person" /\ scene = "portrait" THEN obj_conf * 15 ELSE 0

DetectionGain(obj_conf) == obj_conf * 8

Truthy(optional) == Len(optional) = 1 /\ Len(optional[1]) > 0

(***************************************************************************)
(* Step 4: the image-feature bonus of one scene type.                      *)
(***************************************************************************)
FeatureBonusLoose(scene, features) ==
    (IF features.is_anime_style /\ scene = "art" THEN 500 ELSE 0)
    + (IF features.saturation >= 50 /\ scene \in {"food", "art"} THEN 100 ELSE 0)

FeatureBonus(scene, features) ==
    (IF features.is_anime_style /\ scene = "art" THEN 500 ELSE 0)
    + (IF features.saturation > 50 /\ scene \in {"food", "art"} THEN 100 ELSE 0)

(***************************************************************************)
(* Steps 5 and 6: max(scene_scores, key=scene_scores.get) and the          *)
(* "unknown" override.                                                     *)
(***************************************************************************)
MaxScore(scores) ==
    CHOOSE m \in {scores[s] : s \in Scenes} : \A s \in Scenes : scores[s] <= m

BestSceneLast(scores) ==
    SceneOrder[CHOOSE k \in 1..Len(SceneOrder) :
                  /\ scores[SceneOrder[k]] = MaxScore(scores)
                  /\ \A j \in (k + 1)..Len(SceneOrder) :
                        scores[SceneOrder[j]] # MaxScore(scores)]

BestScene(scores) ==
    SceneOrder[CHOOSE k \in 1..Len(SceneOrder) :
                  /\ scores[SceneOrder[k]] = MaxScore(scores)
                  /\ \A j \in 1..(k - 1) :
                        scores[SceneOrder[j]] # MaxScore(scores)]

TooLowInclusive(best_score) == best_score <= 100

TooLow(best_score) == best_score < 100

PrimaryType(scores) ==
    IF TooLow(scores[BestScene(scores)]) THEN "unknown" ELSE BestScene(scores)

PrimaryConfidenceNormalised(best_score, scores) ==
    (best_score * 1000) \div (SumScores(scores) + 1)

PrimaryConfidence(best_score, scores) == Min(best_score, 1000)

(***************************************************************************)
(* Step 7: total_score and scene_distribution.                             *)
(***************************************************************************)
TotalScoreOfBest(scores) == MaxScore(scores) + 1

TotalScoreNoEpsilon(scores) == SumScores(scores)

TotalScore(scores) == SumScores(scores) + 1

\* sorted(scene_scores.items(), key=lambda x: -x[1]): a stable sort, so equal
\* scores keep the taxonomy order.
BeforeTiesReversed(scores, s, t) ==
    \/ scores[s] > scores[t]
    \/ scores[s] = scores[t] /\ SceneIndex(s) > SceneIndex(t)

Before(scores, s, t) ==
    \/ scores[s] > scores[t]
    \/ scores[s] = scores[t] /\ SceneIndex(s) < SceneIndex(t)

SortedScenes(scores) ==
    [k \in 1..Len(SceneOrder) |->
        CHOOSE s \in Scenes :
            Cardinality({t \in Scenes : Before(scores, t, s)}) = k - 1]

ListedAlways(score) == score >= 0

ListedAboveThreshold(score) == score > 100

Listed(score) == score > 0

SceneDistribution(scores) ==
    LET kept == SelectSeq(SortedScenes(scores), LAMBDA s : Listed(scores[s]))
        top  == Prefix(kept, 5)
    IN  [k \in 1..Len(top) |->
            [type |-> top[k],
             confidence |-> [num |-> scores[top[k]], den |-> TotalScore(scores)]]]

FeatureSummary(features) ==
    IF Len(features) = 1
    THEN [is_anime_style |-> features[1].is_anime_style,
          saturation |-> features[1].saturation,
          brightness |-> features[1].brightness]
    ELSE [is_anime_style |-> FALSE, saturation |-> 0, brightness |-> 0]

(***************************************************************************)
(* Inputs of a call.                                                       *)
(***************************************************************************)
ClassificationItems ==
    [class_name : ClassificationNames, confidence : ClassificationConfidences]

DetectionItems ==
    [class_name : DetectionNames, confidence : DetectionConfidences]

ListsOf(items) == UNION {[1..n -> items] : n \in 0..MaxItems}

FeatureDicts ==
    [is_anime_style : BOOLEAN, saturation : InputSaturations, brightness : {50}]

Init ==
    /\ classifications \in ListsOf(ClassificationItems)
    /\ detected_objects \in {<<>>} \cup {<<d>> : d \in ListsOf(DetectionItems)}
    /\ Len(classifications)
         + (IF Len(detected_objects) = 1 THEN Len(detected_objects[1]) ELSE 0)
       <= MaxItems
    /\ image_features \in {<<>>} \cup {<<f>> : f \in FeatureDicts}
    /\ pc = "score"
    /\ ci = 1
    /\ di = 1
    /\ scene_scores = [s \in Scenes |-> 0]
    /\ matched_keywords = <<>>
    /\ result = <<>>
    /\ InvIdle
    /\ ModelsIdle
    /\ TokensIdle
    /\ RequestsIdle
    /\ FeaturesIdle
    /\ TopKIdle
    /\ PayloadIdle
    /\ ReadImageIdle
    /\ VideoIdle
    /\ OcrIdle

inputs == <<classifications, image_features, detected_objects>>

(***************************************************************************)
(* One iteration of  for item in classifications  (lines 148-161).         *)
(***************************************************************************)
ScoreClassification ==
    /\ pc = "score"
    /\ ci <= Len(classifications)
    /\ LET class_name == Lower(classifications[ci].class_name)
           confidence == classifications[ci].confidence
           hits       == ClassificationHits(class_name)
       IN  /\ scene_scores' =
                 Accumulate(scene_scores, hits, ClassificationGain(confidence))
           /\ matched_keywords' =
                 matched_keywords \o MatchedTuples(hits, class_name, confidence)
    /\ ci' = ci + 1
    /\ UNCHANGED <<inputs, pc, di, result>>
    /\ UNCHANGED scorerOthers

(***************************************************************************)
(* One iteration of  for obj in detected_objects  (lines 164-176).         *)
(***************************************************************************)
ScoreDetection ==
    /\ pc = "score"
    /\ ci > Len(classifications)
    /\ Truthy(detected_objects)
    /\ di <= Len(detected_objects[1])
    /\ LET obj_name == Lower(detected_objects[1][di].class_name)
           obj_conf == detected_objects[1][di].confidence
           hits     == DetectionHits(obj_name)
       IN  scene_scores' =
               Accumulate([s \in Scenes |->
                              scene_scores[s] + PersonBonus(s, obj_name, obj_conf)],
                          hits, DetectionGain(obj_conf))
    /\ di' = di + 1
    /\ UNCHANGED <<inputs, pc, ci, matched_keywords, result>>
    /\ UNCHANGED scorerOthers

(***************************************************************************)
(* if image_features: ...  (lines 179-187), entered when both loops ended. *)
(***************************************************************************)
ScoreFeatures ==
    /\ pc = "score"
    /\ ci > Len(classifications)
    /\ Truthy(detected_objects) => di > Len(detected_objects[1])
    /\ scene_scores' =
          [s \in Scenes |->
              scene_scores[s]
                + (IF Len(image_features) = 1
                   THEN FeatureBonus(s, image_features[1]) ELSE 0)]
    /\ pc' = "best"
    /\ UNCHANGED <<inputs, ci, di, matched_keywords, result>>
    /\ UNCHANGED scorerOthers

(***************************************************************************)
(* Lines 190-227: best scene, override, distribution and the return value. *)
(***************************************************************************)
Finalize ==
    /\ pc = "best"
    /\ LET best_scene == BestScene(scene_scores)
           best_score == scene_scores[best_scene]
       IN  result' =
             <<[primary_scene |->
                   [type |-> PrimaryType(scene_scores),
                    confidence |-> PrimaryConfidence(best_score, scene_scores)],
                scene_distribution |-> SceneDistribution(scene_scores),
                matched_keywords |-> Prefix(matched_keywords, 10),
                image_features |-> FeatureSummary(image_features)]>>
    /\ pc' = "done"
    /\ UNCHANGED <<inputs, ci, di, scene_scores, matched_keywords>>
    /\ UNCHANGED scorerOthers

Next ==
    \/ ScoreClassification
    \/ ScoreDetection
    \/ ScoreFeatures
    \/ Finalize

Spec == Init /\ [][Next]_vars

TypeOK ==
    /\ pc \in {"score", "best", "done"}
    /\ ci \in 1..(MaxItems + 1)
    /\ di \in 1..(MaxItems + 1)
    /\ \A s \in Scenes : scene_scores[s] \in Nat
    /\ Len(result) = 1 <=> pc = "done"

(***************************************************************************)
(* Vocabulary of the properties.                                           *)
(***************************************************************************)
Done == pc = "done"

Primary == result[1].primary_scene

Distribution == result[1].scene_distribution

NoDetections == ~Truthy(detected_objects)

NoFeatures == Len(image_features) = 0

OnlyDetection(name, conf) ==
    /\ Len(classifications) = 0
    /\ NoFeatures
    /\ detected_objects = <<(<<[class_name |-> name, confidence |-> conf]>>)>>

OthersZero(kept) == \A s \in Scenes \ kept : scene_scores[s] = 0

\* C1 (as stated): detection [person 0.8] alone leaves score["portrait"] at
\* exactly 0.8 * 1.5 = 1.2, with primary type portrait and confidence 1.0.
C1_Original ==
    (Done /\ OnlyDetection("person", 80)) =>
        /\ scene_scores["portrait"] = 1200
        /\ Primary.type = "portrait"
        /\ Primary.confidence = 1000

\* C1 (amended): detection [person 0.8] alone leaves score["portrait"] at
\* 0.8 * 1.5 + 0.8 * 0.8 = 1.84 (the person weight plus the keyword "person"
\* matched by the detection name), every other score at 0, with primary type
\* portrait and confidence clamped to 1.0.
C1_Amended ==
    (Done /\ OnlyDetection("person", 80)) =>
        /\ scene_scores["portrait"] = 1840
        /\ OthersZero({"portrait"})
        /\ Primary.type = "portrait"
        /\ Primary.confidence = 1000

C1_Witness ==
    /\ Done
    /\ OnlyDetection("person", 80)
    /\ scene_scores["portrait"] > 1200

\* C2 (as stated): primary_scene.confidence equals min(score[t], 1.0) where t
\* is the type returned in primary_scene.type, i.e. after the "unknown"
\* override.
C2_Original ==
    Done => Primary.confidence = Min(scene_scores[Primary.type], 1000)

\* C2 (amended): primary_scene.confidence equals min(m, 1.0) where m is the
\* maximum accumulated score, i.e. the score of the type chosen before the
\* "unknown" override; it is not normalised by the total, and when the type
\* is overridden to "unknown" the confidence is still that maximum (below
\* 0.1), not score["unknown"].
C2_Amended ==
    Done =>
        /\ Primary.confidence =
              (IF MaxScore(scene_scores) < 1000
               THEN MaxScore(scene_scores) ELSE 1000)
        /\ Primary.type # "unknown" =>
              Primary.confidence = Min(scene_scores[Primary.type], 1000)

C2_Witness ==
    /\ Done
    /\ Primary.type = "unknown"
    /\ Primary.confidence > 0
    /\ scene_scores["unknown"] = 0

RECURSIVE SumNum(_)
SumNum(dist) ==
    IF Len(dist) = 0 THEN 0 ELSE Head(dist).confidence.num + SumNum(Tail(dist))

\* C3: the confidences of scene_distribution, each score / total_score over
\* the one common total_score, add up to at most 1.0.
C3_DistributionSum ==
    Done =>
        /\ \A k \in 1..Len(Distribution) :
              /\ Distribution[k].confidence.den = SumScores(scene_scores) + 1
              /\ Distribution[k].confidence.num >= 0
        /\ SumNum(Distribution) <= SumScores(scene_scores) + 1

C3_Witness ==
    /\ Done
    /\ Len(Distribution) = 5
    /\ Cardinality({s \in Scenes : scene_scores[s] > 0}) > 5
    /\ SumNum(Distribution) < SumScores(scene_scores)

\* C4: with no classification item, an empty or absent detection list and no
\* image features, the primary type is "unknown", its confidence is 0.0 and
\* scene_distribution is empty.
C4_EmptyInput ==
    (Done /\ Len(classifications) = 0 /\ NoDetections /\ NoFeatures) =>
        /\ Primary.type = "unknown"
        /\ Primary.confidence = 0
        /\ Distribution = <<>>

C4_Witness ==
    /\ Done
    /\ Len(classifications) = 0
    /\ detected_objects = <<(<<>>)>>
    /\ NoFeatures
    /\ Primary.type = "unknown"

\* The (scene, keyword index) pairs a classification name matches.
MatchedPairs(name) ==
    {p \in Scenes \X (1..18) :
        /\ p[2] <= Len(SCENE_TYPES[p[1]])
        /\ \/ StrIn(SCENE_TYPES[p[1]][p[2]], name)
           \/ StrIn(name, SCENE_TYPES[p[1]][p[2]])}

OnlyClassification ==
    /\ Len(classifications) = 1
    /\ NoDetections
    /\ NoFeatures

\* C5: a single classification item whose lowercased name matches exactly
\* one keyword of exactly one scene type, with confidence c >= 0.1 and no
\* other input, yields that scene type with confidence min(c, 1.0); [dog 0.9]
\* yields "animal" with confidence 0.9.
C5_SingleMatch ==
    (Done /\ OnlyClassification /\ classifications[1].confidence >= 10) =>
        LET name  == Lower(classifications[1].class_name)
            c     == classifications[1].confidence * 10
            pairs == MatchedPairs(name)
        IN  /\ Cardinality(pairs) = 1 =>
                  /\ \E p \in pairs : Primary.type = p[1]
                  /\ Primary.confidence = Min(c, 1000)
            /\ (name = "dog" /\ c = 900) =>
                  /\ Primary.type = "animal"
                  /\ Primary.confidence = 900

C5_Witness ==
    /\ Done
    /\ OnlyClassification
    /\ classifications[1] = [class_name |-> "Dog", confidence |-> 90]
    /\ Cardinality(MatchedPairs("dog")) = 1
    /\ Primary.type = "animal"

IsFirstMax(scene) ==
    /\ scene_scores[scene] = MaxScore(scene_scores)
    /\ \A j \in 1..(SceneIndex(scene) - 1) :
          scene_scores[SceneOrder[j]] < MaxScore(scene_scores)

\* C6: the scene chosen before the "unknown" override is the first one, in
\* taxonomy order, whose score is the maximum; it is the returned type unless
\* the override applies, and a lone classification item "car" (equal scores
\* for cityscape, vehicle and art) returns "cityscape".
C6_FirstMaximum ==
    Done =>
        /\ IsFirstMax(BestScene(scene_scores))
        /\ Primary.type \in {BestScene(scene_scores), "unknown"}
        /\ MaxScore(scene_scores) >= 100 => IsFirstMax(Primary.type)
        /\ (OnlyClassification
              /\ classifications[1].class_name = "car"
              /\ classifications[1].confidence >= 10) =>
                 Primary.type = "cityscape"

C6_Witness ==
    /\ Done
    /\ OnlyClassification
    /\ classifications[1] = [class_name |-> "car", confidence |-> 90]
    /\ scene_scores["cityscape"] = 900
    /\ scene_scores["vehicle"] = 900
    /\ scene_scores["art"] = 900
    /\ Primary.type = "cityscape"

\* C7: the returned type is "unknown" if and only if the maximum accumulated
\* score is strictly below 0.1; a maximum of exactly 0.1 is not overridden.
C7_UnknownIffLow ==
    Done => (Primary.type = "unknown" <=> MaxScore(scene_scores) < 100)

C7_Witness ==
    /\ Done
    /\ Len(classifications) = 0
    /\ NoDetections
    /\ ~NoFeatures
    /\ ~image_features[1].is_anime_style
    /\ MaxScore(scene_scores) = 100
    /\ Primary.type = "food"

KeywordsBothWays(scene, name) ==
    Cardinality({j \in 1..Len(SCENE_TYPES[scene]) :
                    \/ StrIn(SCENE_TYPES[scene][j], name)
                    \/ StrIn(name, SCENE_TYPES[scene][j])})

KeywordsWithin(scene, name) ==
    Cardinality({j \in 1..Len(SCENE_TYPES[scene]) :
                    StrIn(SCENE_TYPES[scene][j], name)})

\* C8: processing one classification item adds the item's confidence to a
\* scene type once per keyword of that type that is contained in the
\* lowercased name or contains it, and changes no score otherwise; the name
\* "category" scores for "animal" through the keyword "cat".
C8_ClassificationStep ==
    /\ [][ci' = ci + 1 =>
            \A s \in Scenes :
                scene_scores'[s] =
                    scene_scores[s]
                      + classifications[ci].confidence * 10
                          * KeywordsBothWays(s, Lower(classifications[ci].class_name))]_vars
    /\ []((pc = "score" /\ ci = 2 /\ di = 1
             /\ classifications[1].class_name = "category") =>
            /\ scene_scores["animal"] = classifications[1].confidence * 10
            /\ OthersZero({"animal"}))

C8_Witness ==
    /\ pc = "score"
    /\ ci = 2
    /\ classifications[1].class_name = "a"
    /\ KeywordsBothWays("animal", "a") > 1
    /\ scene_scores["animal"] =
          classifications[1].confidence * 10 * KeywordsBothWays("animal", "a")

\* C9: processing one detection item adds 1.5 x confidence to "portrait" when
\* the lowercased name is exactly "person", and 0.8 x confidence to a scene
\* type once per keyword of that type contained in the name; a name that is
\* only a proper substring of keywords changes no score as a detection, while
\* as a classification item it adds its confidence.
C9_DetectionStep ==
    [][di' = di + 1 =>
          LET obj_name == Lower(detected_objects[1][di].class_name)
              obj_conf == detected_objects[1][di].confidence
          IN  \A s \in Scenes :
                  scene_scores'[s] =
                      scene_scores[s]
                        + (IF obj_name = "person" /\ s = "portrait"
                           THEN obj_conf * 15 ELSE 0)
                        + obj_conf * 8 * KeywordsWithin(s, obj_name)]_vars

C9_Witness ==
    /\ pc = "score"
    /\ Len(classifications) = 1
    /\ classifications[1].class_name = "a"
    /\ di = 2
    /\ detected_objects[1][1].class_name = "a"
    /\ \A s \in Scenes :
          scene_scores[s] =
              classifications[1].confidence * 10 * KeywordsBothWays(s, "a")
    /\ scene_scores["portrait"] > 0

\* C10: given image features, 0.5 is added to "art" exactly when
\* is_anime_style holds and 0.1 to both "food" and "art" exactly when
\* saturation > 0.5; no other score changes, and the features
\* {is_anime_style: true, saturation: 0.7} alone give art = 0.6, food = 0.1
\* and the primary type "art".
C10_FeatureStep ==
    /\ [][(pc = "score" /\ pc' = "best" /\ ~NoFeatures) =>
            LET anime == IF image_features[1].is_anime_style THEN 500 ELSE 0
                vivid == IF image_features[1].saturation > 50 THEN 100 ELSE 0
            IN  /\ scene_scores'["art"] = scene_scores["art"] + anime + vivid
                /\ scene_scores'["food"] = scene_scores["food"] + vivid
                /\ \A s \in Scenes \ {"art", "food"} :
                      scene_scores'[s] = scene_scores[s]]_vars
    /\ []((Done /\ Len(classifications) = 0 /\ NoDetections /\ ~NoFeatures
             /\ image_features[1].is_anime_style
             /\ image_features[1].saturation = 70) =>
            /\ scene_scores["art"] = 600
            /\ scene_scores["food"] = 100
            /\ OthersZero({"art", "food"})
            /\ Primary.type = "art")

C10_Witness ==
    /\ Done
    /\ Len(classifications) = 0
    /\ NoDetections
    /\ ~NoFeatures
    /\ image_features[1].is_anime_style
    /\ image_features[1].saturation = 70
    /\ scene_scores["art"] = 600
    /\ Primary.type = "art"

Positive == {s \in Scenes : scene_scores[s] > 0}

ListedTypes == {Distribution[k].type : k \in 1..Len(Distribution)}

\* C11: scene_distribution lists only scene types with a score above 0, at
\* most 5 of them, by non-increasing score with equal scores in taxonomy
\* order, each with confidence score / (sum of all scores + 0.001); every
\* omitted type with a positive score scores no more than any listed one.
C11_Distribution ==
    Done =>
        /\ Len(Distribution) = Min(5, Cardinality(Positive))
        /\ \A k \in 1..Len(Distribution) :
              /\ Distribution[k].type \in Positive
              /\ Distribution[k].confidence =
                    [num |-> scene_scores[Distribution[k].type],
                     den |-> SumScores(scene_scores) + 1]
        /\ \A k, l \in 1..Len(Distribution) :
              k < l =>
                 LET a == Distribution[k].type
                     b == Distribution[l].type
                 IN  \/ scene_scores[a] > scene_scores[b]
                     \/ /\ scene_scores[a] = scene_scores[b]
                        /\ SceneIndex(a) < SceneIndex(b)
        /\ \A s \in Positive \ ListedTypes :
              \A t \in ListedTypes : scene_scores[s] <= scene_scores[t]

C11_Witness ==
    /\ Done
    /\ Len(Distribution) = 5
    /\ Positive \ ListedTypes # {}
    /\ \E k \in 1..4 :
          Distribution[k].confidence.num = Distribution[k + 1].confidence.num

\* The tuples the classification items record, in recording order.
RECURSIVE ExpectedKeywords(_)
ExpectedKeywords(k) ==
    IF k > Len(classifications) THEN <<>>
    ELSE LET name == Lower(classifications[k].class_name)
             hits == SelectSeq(TaxonomyLoop,
                        LAMBDA p : StrIn(p.keyword, name) \/ StrIn(name, p.keyword))
         IN  [j \in 1..Len(hits) |->
                 [keyword |-> hits[j].keyword, class |-> name,
                  scene |-> hits[j].scene,
                  confidence |-> classifications[k].confidence]]
             \o ExpectedKeywords(k + 1)

\* C12: the returned matched_keywords has at most 10 entries and is the
\* first 10 (or all) recorded tuples, in classification item order, then
\* taxonomy order, then keyword order; each classification match records one
\* tuple, detection matches and feature bonuses record none.
C12_MatchedKeywords ==
    /\ [](Done =>
            LET expected == ExpectedKeywords(1)
                returned == result[1].matched_keywords
            IN  /\ Len(returned) <= 10
                /\ Len(returned) = Min(10, Len(expected))
                /\ \A k \in 1..Len(returned) : returned[k] = expected[k])
    /\ [][(di' # di \/ pc' = "best") =>
            matched_keywords' = matched_keywords]_vars

C12_Witness ==
    /\ Done
    /\ Len(matched_keywords) > 10
    /\ Len(result[1].matched_keywords) = 10
    /\ Truthy(detected_objects)
    /\ detected_objects[1][1].class_name = "person"

\* C13: every call on well-formed input runs to completion and returns a
\* result, and the divisor of the distribution, sum of all scores + 0.001,
\* is strictly positive in every state of the call.
C13_NoFailure ==
    /\ TotalScore(scene_scores) > 0
    /\ ~Done => ENABLED Next
    /\ Done =>
          /\ Len(result) = 1
          /\ \A k \in 1..Len(Distribution) : Distribution[k].confidence.den > 0

C13_Witness ==
    /\ Done
    /\ SumScores(scene_scores) = 0
    /\ TotalScore(scene_scores) = 1
    /\ Len(result) = 1
    /\ ~NoFeatures

(***************************************************************************)
(* Concurrent invocations of classify_scene.                               *)
(*                                                                         *)
(* Every invocation has its own frame: the three arguments, the position   *)
(* in the body, the loop indices and the return value.  scene_scores and   *)
(* matched_keywords are locals created at lines 144-145; store[n] is the   *)
(* memory they occupy, which holds whatever an earlier call left there     *)
(* until line 144 runs.  SCENE_TYPES is only read.                         *)
(***************************************************************************)
MaxInvocations == 2

Invocations == 1..MaxInvocations

ZeroScores == [s \in Scenes |-> 0]

CallClassifications ==
    {<<[class_name |-> "a", confidence |-> 10]>>,
     <<[class_name |-> "Dog", confidence |-> 90],
       [class_name |-> "car", confidence |-> 5]>>}

CallDetections ==
    {<<>>, <<(<<[class_name |-> "person", confidence |-> 80]>>)>>}

CallFeatures ==
    {<<[is_anime_style |-> TRUE, saturation |-> 70, brightness |-> 50]>>}

LeftOvers ==
    {[scene_scores |-> ZeroScores, matched_keywords |-> <<>>],
     [scene_scores |-> [ZeroScores EXCEPT !["animal"] = 900],
      matched_keywords |->
          <<[keyword |-> "dog", class |-> "dog", scene |-> "animal",
             confidence |-> 90]>>]}

\* scene_scores = {scene: 0.0 for scene in cls.SCENE_TYPES.keys()}
FreshScoresKept(old) == old

FreshScores(old) == ZeroScores

\* The accumulators of invocation n are its own locals.
StoreOfShared(n) == 1

StoreOf(n) == n

\* The dict returned at lines 212-227.
ReturnValue(scores, matched, features) ==
    [primary_scene |->
        [type |-> PrimaryType(scores),
         confidence |-> PrimaryConfidence(scores[BestScene(scores)], scores)],
     scene_distribution |-> SceneDistribution(scores),
     matched_keywords |-> Prefix(matched, 10),
     image_features |-> FeatureSummary(features)]

InitInv ==
    /\ frames \in
          [Invocations ->
              [classifications : CallClassifications,
               image_features : CallFeatures,
               detected_objects : CallDetections,
               pc : {"enter"}, ci : {1}, di : {1}, result : {<<>>}]]
    /\ store \in [Invocations -> LeftOvers]
    /\ ScorerIdle
    /\ ModelsIdle
    /\ TokensIdle
    /\ RequestsIdle
    /\ FeaturesIdle
    /\ TopKIdle
    /\ PayloadIdle
    /\ ReadImageIdle
    /\ VideoIdle
    /\ OcrIdle

\* Lines 144-145 of invocation n.
InvEnter(n) ==
    /\ frames[n].pc = "enter"
    /\ store' = [store EXCEPT ![StoreOf(n)] =
                    [scene_scores |-> FreshScores(@.scene_scores),
                     matched_keywords |-> <<>>]]
    /\ frames' = [frames EXCEPT ![n].pc = "score"]
    /\ UNCHANGED invOthers

\* One iteration of the classification loop of invocation n (148-161).
InvClassification(n) ==
    /\ frames[n].pc = "score"
    /\ frames[n].ci <= Len(frames[n].classifications)
    /\ LET item       == frames[n].classifications[frames[n].ci]
           class_name == Lower(item.class_name)
           confidence == item.confidence
           hits       == ClassificationHits(class_name)
       IN  store' = [store EXCEPT ![StoreOf(n)] =
                       [scene_scores |->
                           Accumulate(@.scene_scores, hits,
                                      ClassificationGain(confidence)),
                        matched_keywords |->
                           @.matched_keywords
                             \o MatchedTuples(hits, class_name, confidence)]]
    /\ frames' = [frames EXCEPT ![n].ci = @ + 1]
    /\ UNCHANGED invOthers

\* One iteration of the detection loop of invocation n (164-176).
InvDetection(n) ==
    /\ frames[n].pc = "score"
    /\ frames[n].ci > Len(frames[n].classifications)
    /\ Truthy(frames[n].detected_objects)
    /\ frames[n].di <= Len(frames[n].detected_objects[1])
    /\ LET obj      == frames[n].detected_objects[1][frames[n].di]
           obj_name == Lower(obj.class_name)
           obj_conf == obj.confidence
           hits     == DetectionHits(obj_name)
       IN  store' = [store EXCEPT ![StoreOf(n)].scene_scores =
                       Accumulate([s \in Scenes |->
                                      @[s] + PersonBonus(s, obj_name, obj_conf)],
                                  hits, DetectionGain(obj_conf))]
    /\ frames' = [frames EXCEPT ![n].di = @ + 1]
    /\ UNCHANGED invOthers

\* The feature bonus of invocation n (179-187).
InvFeatures(n) ==
    /\ frames[n].pc = "score"
    /\ frames[n].ci > Len(frames[n].classifications)
    /\ Truthy(frames[n].detected_objects) =>
          frames[n].di > Len(frames[n].detected_objects[1])
    /\ store' = [store EXCEPT ![StoreOf(n)].scene_scores =
                    [s \in Scenes |->
                        @[s] + (IF Len(frames[n].image_features) = 1
                                THEN FeatureBonus(s, frames[n].image_features[1])
                                ELSE 0)]]
    /\ frames' = [frames EXCEPT ![n].pc = "best"]
    /\ UNCHANGED invOthers

\* Lines 190-227 of invocation n.
InvFinalize(n) ==
    /\ frames[n].pc = "best"
    /\ frames' = [frames EXCEPT
                    ![n].pc = "done",
                    ![n].result =
                        <<ReturnValue(store[StoreOf(n)].scene_scores,
                                      store[StoreOf(n)].matched_keywords,
                                      frames[n].image_features)>>]
    /\ UNCHANGED store
    /\ UNCHANGED invOthers

NextInv ==
    \E n \in Invocations :
        \/ InvEnter(n)
        \/ InvClassification(n)
        \/ InvDetection(n)
        \/ InvFeatures(n)
        \/ InvFinalize(n)

SpecInv == InitInv /\ [][NextInv]_vars

(***************************************************************************)
(* The value a call returns when it runs alone, from start to end.         *)
(***************************************************************************)
RECURSIVE AloneClassifications(_, _, _)
AloneClassifications(items, k, acc) ==
    IF k > Len(items) THEN acc
    ELSE LET class_name == Lower(items[k].class_name)
             hits       == ClassificationHits(class_name)
         IN  AloneClassifications(items, k + 1,
                [scene_scores |->
                    Accumulate(acc.scene_scores, hits,
                               ClassificationGain(items[k].confidence)),
                 matched_keywords |->
                    acc.matched_keywords
                      \o MatchedTuples(hits, class_name, items[k].confidence)])

RECURSIVE AloneDetections(_, _, _)
AloneDetections(objs, k, scores) ==
    IF k > Len(objs) THEN scores
    ELSE LET obj_name == Lower(objs[k].class_name)
         IN  AloneDetections(objs, k + 1,
                Accumulate([s \in Scenes |->
                               scores[s]
                                 + PersonBonus(s, obj_name, objs[k].confidence)],
                           DetectionHits(obj_name),
                           DetectionGain(objs[k].confidence)))

RunAlone(frame) ==
    LET acc    == AloneClassifications(frame.classifications, 1,
                     [scene_scores |-> ZeroScores, matched_keywords |-> <<>>])
        scored == IF Truthy(frame.detected_objects)
                  THEN AloneDetections(frame.detected_objects[1], 1,
                                       acc.scene_scores)
                  ELSE acc.scene_scores
        final  == [s \in Scenes |->
                      scored[s]
                        + (IF Len(frame.image_features) = 1
                           THEN FeatureBonus(s, frame.image_features[1])
                           ELSE 0)]
    IN  ReturnValue(final, acc.matched_keywords, frame.image_features)

SameArguments(n, m) ==
    /\ frames[n].classifications = frames[m].classifications
    /\ frames[n].image_features = frames[m].image_features
    /\ frames[n].detected_objects = frames[m].detected_objects

\* C14: two calls of classify_scene with identical arguments return
\* identical values, whatever earlier calls left in memory and whatever
\* other calls run before, between or during them.
C14_SameInputSameOutput ==
    \A n, m \in Invocations :
        (frames[n].pc = "done" /\ frames[m].pc = "done" /\ SameArguments(n, m))
            => frames[n].result = frames[m].result

C14_Witness ==
    /\ frames[1].pc = "done"
    /\ frames[2].pc = "done"
    /\ SameArguments(1, 2)
    /\ frames[1].result = frames[2].result
    /\ frames[1].result[1].primary_scene.type # "unknown"
    /\ Len(frames[1].classifications) = 2

\* C15: under every interleaving of the steps of concurrent invocations each
\* invocation returns the value it returns when run alone, and no step
\* changes the arguments of any invocation.
C15_Isolation ==
    /\ [](\A n \in Invocations :
             frames[n].pc = "done" => frames[n].result = <<RunAlone(frames[n])>>)
    /\ [][\A n \in Invocations :
             /\ frames'[n].classifications = frames[n].classifications
             /\ frames'[n].image_features = frames[n].image_features
             /\ frames'[n].detected_objects = frames[n].detected_objects]_vars

C15_Witness ==
    /\ frames[1].pc = "done"
    /\ frames[2].pc = "score"
    /\ frames[2].ci = 2
    /\ ~SameArguments(1, 2)
    /\ frames[1].result = <<RunAlone(frames[1])>>
    /\ store[1].scene_scores # store[2].scene_scores

(***************************************************************************)
(* ModelManager.get_model (api/yolo.py 44-52, api_server.py 224-232).      *)
(*                                                                         *)
(* get_model takes no lock, so a thread can be suspended between any two   *)
(* of its steps: the membership test, the path lookup, the construction    *)
(* YOLO(model_path), the store into _models and the final read.  A handle  *)
(* is the object YOLO(...) returns; two constructions give two objects,    *)
(* told apart here by a serial number.                                     *)
(***************************************************************************)
MaxThreads == 2

Threads == 1..MaxThreads

MODEL_PATHS ==
    [detect   |-> "yolo11n.pt",
     classify |-> "yolo11n-cls.pt",
     pose     |-> "yolo11n-pose.pt",
     segment  |-> "yolo11n-seg.pt"]

\* The task names the callers pass; "track" has no entry in MODEL_PATHS.
RequestedTasks == {"detect", "pose", "track"}

IdleCaller == [pc |-> "idle", task |-> "", model_path |-> <<>>,
               built |-> <<>>, ret |-> <<>>]

\* self.MODEL_PATHS.get(task)
PathOf(task) ==
    IF task \in DOMAIN MODEL_PATHS THEN <<MODEL_PATHS[task]>> ELSE <<>>

\* task in self._models
Cached(task) == models[task] # <<>>

InitModels ==
    /\ models = [task \in RequestedTasks |-> <<>>]
    /\ callers = [t \in Threads |-> IdleCaller]
    /\ constructions = [task \in RequestedTasks |-> 0]
    /\ handles = [task \in RequestedTasks |-> {}]
    /\ ScorerIdle
    /\ InvIdle
    /\ TokensIdle
    /\ RequestsIdle
    /\ FeaturesIdle
    /\ TopKIdle
    /\ PayloadIdle
    /\ ReadImageIdle
    /\ VideoIdle
    /\ OcrIdle

\* Thread t calls get_model(task).
GetModel(t, task) ==
    /\ callers[t].pc = "idle"
    /\ callers' = [callers EXCEPT ![t] = [IdleCaller EXCEPT !.pc = "check",
                                                            !.task = task]]
    /\ UNCHANGED <<models, constructions, handles>>
    /\ UNCHANGED mmOthers

\* if task not in self._models:
CheckCached(t) ==
    /\ callers[t].pc = "check"
    /\ callers' = [callers EXCEPT ![t].pc =
                      IF Cached(callers[t].task) THEN "return" ELSE "lookup"]
    /\ UNCHANGED <<models, constructions, handles>>
    /\ UNCHANGED mmOthers

\* model_path = self.MODEL_PATHS.get(task); ValueError when it is None.
LookupPath(t) ==
    /\ callers[t].pc = "lookup"
    /\ LET model_path == PathOf(callers[t].task)
       IN  callers' = [callers EXCEPT
                          ![t].model_path = model_path,
                          ![t].pc = IF model_path = <<>> THEN "raised"
                                                         ELSE "construct"]
    /\ UNCHANGED <<models, constructions, handles>>
    /\ UNCHANGED mmOthers

\* YOLO(model_path): a new handle.
Construct(t) ==
    /\ callers[t].pc = "construct"
    /\ LET task == callers[t].task
       IN  /\ constructions' = [constructions EXCEPT ![task] = @ + 1]
           /\ callers' = [callers EXCEPT
                             ![t].built =
                                 <<[path |-> callers[t].model_path[1],
                                    serial |-> constructions[task] + 1]>>,
                             ![t].pc = "store"]
    /\ UNCHANGED <<models, handles>>
    /\ UNCHANGED mmOthers

\* self._models[task] = <the handle just built>
StoreModel(t) ==
    /\ callers[t].pc = "store"
    /\ models' = [models EXCEPT ![callers[t].task] = callers[t].built]
    /\ callers' = [callers EXCEPT ![t].pc = "return"]
    /\ UNCHANGED <<constructions, handles>>
    /\ UNCHANGED mmOthers

\* return self._models[task]
ReturnModel(t) ==
    /\ callers[t].pc = "return"
    /\ LET task == callers[t].task
       IN  /\ callers' = [callers EXCEPT ![t].ret = models[task],
                                         ![t].pc = "done"]
           /\ handles' = [handles EXCEPT ![task] = @ \cup {models[task][1]}]
    /\ UNCHANGED <<models, constructions>>
    /\ UNCHANGED mmOthers

\* The call is over (returned or raised); the thread may call again.
Leave(t) ==
    /\ callers[t].pc \in {"done", "raised"}
    /\ callers' = [callers EXCEPT ![t] = IdleCaller]
    /\ UNCHANGED <<models, constructions, handles>>
    /\ UNCHANGED mmOthers

NextModels ==
    \E t \in Threads :
        \/ \E task \in RequestedTasks : GetModel(t, task)
        \/ CheckCached(t)
        \/ LookupPath(t)
        \/ Construct(t)
        \/ StoreModel(t)
        \/ ReturnModel(t)
        \/ Leave(t)

SpecModels == InitModels /\ [][NextModels]_vars

\* C16: under any interleaving of concurrent get_model(task) calls the model
\* of a task is constructed at most once and every call for that task returns
\* the same handle.
C16_ConstructedOnceAndShared ==
    \A task \in RequestedTasks :
        /\ constructions[task] <= 1
        /\ Cardinality(handles[task]) <= 1

(***************************************************************************)
(* Vendor access tokens.                                                   *)
(*                                                                         *)
(* WechatConfig.get_access_token and get_jsapi_ticket (api/wechat.py       *)
(* 46-116) are coroutines of one event loop: a call runs without           *)
(* interruption up to its next await (the HTTP request to the vendor), and *)
(* other calls and the clock may move while it waits for the answer.       *)
(* get_baidu_access_token (api/baidu_free.py 19-31) uses the blocking      *)
(* requests.post, so a Baidu request asks for its token in one step.       *)
(* Times are whole seconds, as int(time.time()).                           *)
(***************************************************************************)
MaxCoroutines == 2

MaxTicks == 2

Coroutines == 1..MaxCoroutines

\* cls._access_token_expires > current_time + 300
REFRESH_MARGIN == 300

\* data.get("expires_in", 7200)
DEFAULT_EXPIRES_IN == 7200

\* By how much the clock moves between two looks at it.
TimeSteps == {1, 6899}

TokenKinds == {"baidu", "wx_token", "wx_ticket"}

\* The JSON the WeChat server answers with: an error code, or a value with
\* or without "expires_in".
WechatAnswers ==
    {[errcode |-> 40013, expires_in |-> <<>>]}
      \cup [errcode : {0}, expires_in : {<<>>, <<7200>>, <<200>>}]

IdleCoro == [pc |-> "idle", kind |-> "", current_time |-> 0, token_time |-> 0,
             ret |-> <<>>, status_code |-> 0]

\* The cache test of lines 55 and 92, as the claimed "cached for the lifetime
\* of the process" would have it.
FreshForever(value, expires, current_time) == value # <<>>

\* cls._x and cls._x_expires > current_time + 300
Fresh(value, expires, current_time) ==
    /\ value # <<>>
    /\ expires > current_time + REFRESH_MARGIN

ExpiresInAlwaysDefault(data) == DEFAULT_EXPIRES_IN

ExpiresIn(data) ==
    IF data.expires_in = <<>> THEN DEFAULT_EXPIRES_IN ELSE data.expires_in[1]

TokenCacheEager(cache, data, value, current_time) ==
    [cache EXCEPT !.access_token = IF data.errcode # 0 THEN @ ELSE <<value>>,
                  !.access_token_expires = current_time + ExpiresIn(data)]

\* Lines 73-78: the cache attributes after the answer data to a token
\* request of a call that started at current_time.
TokenCache(cache, data, value, current_time) ==
    IF data.errcode # 0
    THEN cache
    ELSE [cache EXCEPT !.access_token = <<value>>,
                       !.access_token_expires = current_time + ExpiresIn(data)]

\* Lines 108-113, for the ticket.
TicketCache(cache, data, value, current_time) ==
    IF data.errcode # 0
    THEN cache
    ELSE [cache EXCEPT !.jsapi_ticket = <<value>>,
                       !.jsapi_ticket_expires = current_time + ExpiresIn(data)]

InitTokens ==
    /\ now = 0
    /\ ticks = 0
    /\ keys \in [wechat : BOOLEAN, baidu : BOOLEAN]
    /\ wechat = [access_token |-> <<>>, access_token_expires |-> 0,
                 jsapi_ticket |-> <<>>, jsapi_ticket_expires |-> 0]
    /\ coros = [c \in Coroutines |-> IdleCoro]
    /\ sent = [k \in TokenKinds |-> 0]
    /\ granted = [k \in TokenKinds |-> 0]
    /\ ScorerIdle
    /\ InvIdle
    /\ ModelsIdle
    /\ RequestsIdle
    /\ FeaturesIdle
    /\ TopKIdle
    /\ PayloadIdle
    /\ ReadImageIdle
    /\ VideoIdle
    /\ OcrIdle

\* time.time() has moved on.
Tick(d) ==
    /\ ticks < MaxTicks
    /\ now' = now + d
    /\ ticks' = ticks + 1
    /\ UNCHANGED <<keys, wechat, coros, sent, granted>>
    /\ UNCHANGED tokOthers

\* A caller awaits get_access_token(): lines 52-70, up to the request.
CallAccessToken(c) ==
    /\ coros[c].pc = "idle"
    /\ LET me == [IdleCoro EXCEPT !.kind = "token", !.token_time = now]
       IN  IF Fresh(wechat.access_token, wechat.access_token_expires, now)
           THEN /\ coros' = [coros EXCEPT ![c] =
                                [me EXCEPT !.pc = "done",
                                           !.ret = wechat.access_token]]
                /\ UNCHANGED sent
           ELSE IF ~keys.wechat
           THEN /\ coros' = [coros EXCEPT ![c] =
                                [me EXCEPT !.pc = "raised",
                                           !.status_code = 500]]
                /\ UNCHANGED sent
           ELSE /\ coros' = [coros EXCEPT ![c] =
                                [me EXCEPT !.pc = "await_token"]]
                /\ sent' = [sent EXCEPT !.wx_token = @ + 1]
    /\ UNCHANGED <<now, ticks, keys, wechat, granted>>
    /\ UNCHANGED tokOthers

\* The answer to the token request arrives: lines 70-81, and for a call of
\* get_jsapi_ticket the continuation 97-107 up to the ticket request.
AccessTokenAnswer(c, data) ==
    /\ coros[c].pc = "await_token"
    /\ LET value == [kind |-> "wx_token", serial |-> granted.wx_token + 1,
                     expires_in |-> data.expires_in]
       IN  /\ wechat' = TokenCache(wechat, data, value, coros[c].token_time)
           /\ IF data.errcode # 0
              THEN /\ coros' = [coros EXCEPT ![c].pc = "raised",
                                             ![c].status_code = 500]
                   /\ UNCHANGED <<sent, granted>>
              ELSE /\ granted' = [granted EXCEPT !.wx_token = @ + 1]
                   /\ IF coros[c].kind = "token"
                      THEN /\ coros' = [coros EXCEPT ![c].pc = "done",
                                                     ![c].ret = <<value>>]
                           /\ UNCHANGED sent
                      ELSE /\ coros' = [coros EXCEPT ![c].pc = "await_ticket"]
                           /\ sent' = [sent EXCEPT !.wx_ticket = @ + 1]
    /\ UNCHANGED <<now, ticks, keys>>
    /\ UNCHANGED tokOthers

\* A caller awaits get_jsapi_ticket(): lines 89-107, with the nested
\* get_access_token() running up to its own request when it has to ask.
CallJsapiTicket(c) ==
    /\ coros[c].pc = "idle"
    /\ LET me == [IdleCoro EXCEPT !.kind = "ticket", !.current_time = now,
                                  !.token_time = now]
       IN  IF Fresh(wechat.jsapi_ticket, wechat.jsapi_ticket_expires, now)
           THEN /\ coros' = [coros EXCEPT ![c] =
                                [me EXCEPT !.pc = "done",
                                           !.ret = wechat.jsapi_ticket]]
                /\ UNCHANGED sent
           ELSE IF Fresh(wechat.access_token, wechat.access_token_expires, now)
           THEN /\ coros' = [coros EXCEPT ![c] =
                                [me EXCEPT !.pc = "await_ticket"]]
                /\ sent' = [sent EXCEPT !.wx_ticket = @ + 1]
           ELSE IF ~keys.wechat
           THEN /\ coros' = [coros EXCEPT ![c] =
                                [me EXCEPT !.pc = "raised",
                                           !.status_code = 500]]
                /\ UNCHANGED sent
           ELSE /\ coros' = [coros EXCEPT ![c] =
                                [me EXCEPT !.pc = "await_token"]]
                /\ sent' = [sent EXCEPT !.wx_token = @ + 1]
    /\ UNCHANGED <<now, ticks, keys, wechat, granted>>
    /\ UNCHANGED tokOthers

\* The answer to the ticket request arrives: lines 107-116.
TicketAnswer(c, data) ==
    /\ coros[c].pc = "await_ticket"
    /\ LET value == [kind |-> "wx_ticket", serial |-> granted.wx_ticket + 1,
                     expires_in |-> data.expires_in]
       IN  /\ wechat' = TicketCache(wechat, data, value, coros[c].current_time)
           /\ IF data.errcode # 0
              THEN /\ coros' = [coros EXCEPT ![c].pc = "raised",
                                             ![c].status_code = 500]
                   /\ UNCHANGED granted
              ELSE /\ granted' = [granted EXCEPT !.wx_ticket = @ + 1]
                   /\ coros' = [coros EXCEPT ![c].pc = "done",
                                             ![c].ret = <<value>>]
    /\ UNCHANGED <<now, ticks, keys, sent>>
    /\ UNCHANGED tokOthers

\* A Baidu request (baidu_free.py 44-47 and the like): the configuration
\* check, then get_baidu_access_token (19-31); has_token tells whether the
\* vendor's answer holds "access_token".
BaiduRequest(c, has_token) ==
    /\ coros[c].pc = "idle"
    /\ LET me == [IdleCoro EXCEPT !.kind = "baidu", !.current_time = now]
       IN  IF ~keys.baidu
           THEN /\ coros' = [coros EXCEPT ![c] =
                                [me EXCEPT !.pc = "raised",
                                           !.status_code = 500]]
                /\ UNCHANGED <<sent, granted>>
           ELSE /\ sent' = [sent EXCEPT !.baidu = @ + 1]
                /\ IF has_token
                   THEN /\ granted' = [granted EXCEPT !.baidu = @ + 1]
                        /\ coros' = [coros EXCEPT ![c] =
                              [me EXCEPT !.pc = "done",
                                         !.ret = <<[kind |-> "baidu",
                                                    serial |->
                                                      granted.baidu + 1,
                                                    expires_in |-> <<>>]>>]]
                   ELSE /\ coros' = [coros EXCEPT ![c] =
                              [me EXCEPT !.pc = "raised",
                                         !.status_code = 500]]
                        /\ UNCHANGED granted
    /\ UNCHANGED <<now, ticks, keys, wechat>>
    /\ UNCHANGED tokOthers

NextTokens ==
    \/ \E d \in TimeSteps : Tick(d)
    \/ \E c \in Coroutines :
          \/ CallAccessToken(c)
          \/ \E data \in WechatAnswers : AccessTokenAnswer(c, data)
          \/ CallJsapiTicket(c)
          \/ \E data \in WechatAnswers : TicketAnswer(c, data)
          \/ \E has_token \in BOOLEAN : BaiduRequest(c, has_token)

SpecTokens == InitTokens /\ [][NextTokens]_vars

\* Coroutine c starts a call of the given kind in this step.
StartsCall(c, kind) == coros[c].pc = "idle" /\ coros'[c].kind = kind

\* C17 (as stated): every vendor access token is created once and afterwards
\* served from a cache for the lifetime of the process: no kind of token is
\* granted twice, and once a token of a kind has been granted no step sends a
\* new token request of that kind to the vendor.
C17_Original ==
    /\ [](\A k \in TokenKinds : granted[k] <= 1)
    /\ [][\A k \in TokenKinds : granted[k] >= 1 => sent'[k] = sent[k]]_vars

\* C17 (amended): the Baidu token is not cached, every Baidu request that
\* passes its configuration check sends one token request; a WeChat token or
\* ticket is requested lazily (nothing is cached or granted before a request
\* was sent) and a call is served from the cache, with no request to the
\* vendor, exactly when a value is cached whose expiry is more than 300
\* seconds after the time of the call; otherwise the call sends a new request
\* (when WeChat is configured).
C17_Amended ==
    /\ [](/\ \A k \in TokenKinds : sent[k] = 0 => granted[k] = 0
          /\ granted.wx_token = 0 => wechat.access_token = <<>>
          /\ granted.wx_ticket = 0 => wechat.jsapi_ticket = <<>>)
    /\ [][\A c \in Coroutines :
            LET tokenCached  == /\ wechat.access_token # <<>>
                                /\ wechat.access_token_expires > now + 300
                ticketCached == /\ wechat.jsapi_ticket # <<>>
                                /\ wechat.jsapi_ticket_expires > now + 300
                asked        == IF keys.wechat THEN 1 ELSE 0
            IN  /\ StartsCall(c, "baidu") =>
                      /\ sent'.baidu = sent.baidu + (IF keys.baidu THEN 1 ELSE 0)
                      /\ sent'.wx_token = sent.wx_token
                      /\ sent'.wx_ticket = sent.wx_ticket
                /\ StartsCall(c, "token") =>
                      IF tokenCached
                      THEN /\ sent' = sent
                           /\ coros'[c].pc = "done"
                           /\ coros'[c].ret = wechat.access_token
                      ELSE /\ sent' = [sent EXCEPT !.wx_token = @ + asked]
                           /\ coros'[c].pc # "done"
                /\ StartsCall(c, "ticket") =>
                      IF ticketCached
                      THEN /\ sent' = sent
                           /\ coros'[c].pc = "done"
                           /\ coros'[c].ret = wechat.jsapi_ticket
                      ELSE IF tokenCached
                      THEN /\ sent' = [sent EXCEPT !.wx_ticket = @ + 1]
                           /\ coros'[c].pc # "done"
                      ELSE /\ sent' = [sent EXCEPT !.wx_token = @ + asked]
                           /\ coros'[c].pc # "done"]_vars

\* Two get_access_token calls have returned, the second started 6900 seconds
\* or more after the first was granted a 7200-second token, and the vendor
\* was asked twice.
C17_Witness ==
    \E c, e \in Coroutines :
        /\ coros[c].kind = "token" /\ coros[c].pc = "done"
        /\ coros[e].kind = "token" /\ coros[e].pc = "done"
        /\ coros[e].token_time >= coros[c].token_time + 6900
        /\ coros[c].ret # coros[e].ret
        /\ sent.wx_token = 2
        /\ granted.wx_token = 2

(***************************************************************************)
(* Request handlers (api/yolo.py, api/lpr.py, api/baidu.py,                *)
(* api/tencent.py, api/baidu_free.py, api/wechat.py; api_server.py holds   *)
(* copies of the first four).                                              *)
(*                                                                         *)
(* A handler is the sequence of the calls it makes; each call either       *)
(* succeeds, raises, or makes the handler return at once.  An outcome is   *)
(*   kind "ok"             the call returned normally,                     *)
(*   kind "HTTPException"  an HTTPException(status_code, detail) is raised *)
(*                         by the call or by the handler on its answer,    *)
(*   kind "Exception"      any other exception, detail being str(e),       *)
(*   kind "return_success" / "return_failure"  the handler returns an      *)
(*                         envelope with success true / false at once;     *)
(* code is the vendor's error code when the vendor answered with one.      *)
(* Messages are short English stand-ins for the texts of the source.       *)
(***************************************************************************)
MaxVideoFrames == 2

OK == [kind |-> "ok", status_code |-> 0, detail |-> "", code |-> 0]

HTTPError(status_code, detail) ==
    [kind |-> "HTTPException", status_code |-> status_code,
     detail |-> detail, code |-> 0]

Error(message) ==
    [kind |-> "Exception", status_code |-> 0, detail |-> message, code |-> 0]

\* The vendor answered with an error code and the handler raises
\* HTTPException(500, <vendor message>).
VendorError(code, detail) ==
    [kind |-> "HTTPException", status_code |-> 500, detail |-> detail,
     code |-> code]

\* A call of the handler: what is called, whether it is an external
\* collaborator (model loading, model inference, vendor request), what can
\* come of it, and the try block around it: "outer" is the handler's own
\* try, "swallow" an inner try whose except clause only logs (control
\* resumes at step resume), "wrap400" an inner try whose except clause
\* raises HTTPException(400).
Step(op, ext, outcomes) ==
    [op |-> op, ext |-> ext, outcomes |-> outcomes, try |-> "outer",
     resume |-> 0]

\* utils.read_image_from_base64: every failure is an HTTPException(400).
ReadImage ==
    Step("read_image_from_base64", FALSE,
         {OK, HTTPError(400, "cannot parse image data")})

\* base64.b64decode called directly by a handler.
B64Decode == Step("b64decode", FALSE, {OK, Error("Incorrect padding")})

\* model_manager.get_model(task)
LoadModel(task) ==
    Step("get_model:" \o task, TRUE, {OK, Error("weights not found")})

\* model(image, ...)
Infer(task, image) ==
    Step("model:" \o task \o ":" \o image, TRUE,
         {OK, Error("inference failed")})

\* A configuration or availability check that raises HTTPException(500).
Configured == Step("configured", FALSE, {OK, HTTPError(500, "not configured")})

\* else: raise HTTPException(400, unsupported api_type)
Unsupported ==
    Step("unsupported", FALSE, {HTTPError(400, "unsupported api type")})

\* A vendor request whose error-coded answer the handler raises as
\* HTTPException(500), and which may itself raise (network, SDK).
Vendor(op) ==
    Step(op, TRUE, {OK, VendorError(17, "vendor error: limit reached"),
                    Error("connection timed out")})

\* A vendor SDK call that reports its failures by raising.
VendorRaising(op) == Step(op, TRUE, {OK, Error("SDK error: auth failure")})

\* get_baidu_access_token: raises Exception without "access_token".
BaiduToken ==
    Step("baidu token request", TRUE,
         {OK, Error("cannot get access_token")})

\* The requests of WechatConfig with an empty cache: errcode raises
\* HTTPException(500), the HTTP client may raise.
WechatRequest(op) ==
    Step(op, TRUE, {OK, VendorError(40013, "wechat error: invalid appid"),
                    Error("connection timed out")})

FrameName(k) == IF k = 1 THEN "frame0" ELSE IF k = 2 THEN "frame1" ELSE "frame2"

\* yolo.py 60-115, 204-287, 292-350
YoloSteps(task) ==
    <<ReadImage, LoadModel(task), Infer(task, "image")>>

\* yolo.py 120-199; the auxiliary detection of lines 169-180 sits in a try
\* whose except clause logs a warning, control resuming at line 183.
ClassifySteps(analyze_scene) ==
    YoloSteps("classify")
      \o (IF analyze_scene
          THEN <<[LoadModel("detect") EXCEPT !.try = "swallow", !.resume = 6],
                 [Infer("detect", "image") EXCEPT !.try = "swallow",
                                                 !.resume = 6]>>
          ELSE <<>>)

\* yolo.py 355-621 with a video of n frames, all of them processed.
VideoSteps(n) ==
    <<[B64Decode EXCEPT !.try = "wrap400"],
      Step("VideoCapture", FALSE, {OK, HTTPError(400, "cannot open video")}),
      LoadModel("pose")>>
      \o [k \in 1..n |-> Infer("pose", FrameName(k))]

\* lpr.py 43-148; drawing the plate text with PIL (119-138) sits in a try
\* whose except clause logs a warning and falls back to cv2.putText.
LprSteps ==
    <<Configured, ReadImage,
      Step("lpr_model", TRUE, {OK, Error("recognition failed")}),
      [Step("PIL draw text", FALSE, {OK, Error("cannot open resource")})
          EXCEPT !.try = "swallow", !.resume = 5]>>

\* baidu.py 18-240; the face branch returns success on error code 222202.
BaiduSteps(api_type) ==
    <<B64Decode>>
      \o (IF api_type \in {"classify", "detect", "car"}
          THEN <<Configured, Vendor("baidu " \o api_type)>>
          ELSE IF api_type = "face"
          THEN <<Configured,
                 [Vendor("baidu face") EXCEPT !.outcomes =
                     @ \cup {[kind |-> "return_success", status_code |-> 200,
                              detail |-> "no face detected",
                              code |-> 222202]}]>>
          ELSE <<Unsupported>>)

\* tencent.py 18-143
TencentSteps(api_type) ==
    <<Configured>>
      \o (IF api_type \in {"detect", "label", "car"}
          THEN <<VendorRaising("tencent " \o api_type)>>
          ELSE <<Unsupported>>)

\* baidu_free.py 34-216
OcrSteps(api_type) ==
    <<Configured, BaiduToken>>
      \o (IF api_type \in {"formula", "dict_pen", "homework",
                            "question_segment"}
          THEN <<Vendor("baidu ocr " \o api_type)>>
          ELSE <<Unsupported>>)

\* baidu_free.py 219-286
SpeechSteps == <<Configured, BaiduToken, B64Decode, Vendor("baidu speech")>>

\* baidu_free.py 289-463
ImageSearchSteps(op) == <<Configured, BaiduToken, Vendor(op)>>

\* wechat.py 170-210: the configuration check returns the envelope with
\* success false; get_jsapi_ticket asks for the token and for the ticket.
SignatureSteps ==
    <<Step("configured", FALSE,
           {OK, [kind |-> "return_failure", status_code |-> 200,
                 detail |-> "wechat not configured", code |-> 0]}),
      WechatRequest("wechat token request"),
      WechatRequest("wechat ticket request")>>

\* wechat.py 213-266
VoiceSteps ==
    <<Configured, WechatRequest("wechat token request"),
      WechatRequest("wechat media request")>>

Requests ==
    [route : {"detect_objects", "estimate_pose", "segment_image",
              "recognize_license_plate", "baidu_free_speech",
              "baidu_free_image_search", "baidu_free_image_add",
              "baidu_free_image_delete", "get_wechat_signature",
              "download_wechat_voice"},
     api_type : {""}, analyze_scene : {FALSE}, frames : {0}]
      \cup [route : {"classify_image"}, api_type : {""},
            analyze_scene : BOOLEAN, frames : {0}]
      \cup [route : {"video_pose_estimation"}, api_type : {""},
            analyze_scene : {FALSE}, frames : 0..MaxVideoFrames]
      \cup [route : {"baidu_ai_detect"},
            api_type : {"classify", "detect", "face", "car", "ocr"},
            analyze_scene : {FALSE}, frames : {0}]
      \cup [route : {"tencent_detect_objects"},
            api_type : {"detect", "label", "car", "ocr"},
            analyze_scene : {FALSE}, frames : {0}]
      \cup [route : {"baidu_free_ocr"},
            api_type : {"formula", "dict_pen", "homework",
                        "question_segment", "ocr"},
            analyze_scene : {FALSE}, frames : {0}]

Steps(req) ==
    CASE req.route = "detect_objects" -> YoloSteps("detect")
      [] req.route = "estimate_pose" -> YoloSteps("pose")
      [] req.route = "segment_image" -> YoloSteps("segment")
      [] req.route = "classify_image" -> ClassifySteps(req.analyze_scene)
      [] req.route = "video_pose_estimation" -> VideoSteps(req.frames)
      [] req.route = "recognize_license_plate" -> LprSteps
      [] req.route = "baidu_ai_detect" -> BaiduSteps(req.api_type)
      [] req.route = "tencent_detect_objects" -> TencentSteps(req.api_type)
      [] req.route = "baidu_free_ocr" -> OcrSteps(req.api_type)
      [] req.route = "baidu_free_speech" -> SpeechSteps
      [] req.route = "baidu_free_image_search" ->
            ImageSearchSteps("baidu image search")
      [] req.route = "baidu_free_image_add" ->
            ImageSearchSteps("baidu image add")
      [] req.route = "baidu_free_image_delete" ->
            ImageSearchSteps("baidu image delete")
      [] req.route = "get_wechat_signature" -> SignatureSteps
      [] req.route = "download_wechat_voice" -> VoiceSteps

\* The text in front of str(e) in the handler's `except Exception` clause;
\* download_wechat_voice puts str(e) alone.
FailurePrefix(route) ==
    IF route = "download_wechat_voice" THEN "" ELSE route \o " failed: "

FailureDetailGeneric(route, message) == "Internal Server Error"

\* detail=f"...: {str(e)}"
FailureDetail(route, message) == FailurePrefix(route) \o message

ExceptAsSuccess(route, o) ==
    [status_code |-> 200, success |-> <<TRUE>>, detail |-> ""]

\* The except clauses that close a handler: `except HTTPException: raise`
\* and `except Exception as e: raise HTTPException(500, ...)`; 
\* get_wechat_signature (wechat.py 204-208) returns the envelope
\* SignatureResponse(success=False, error=...) instead.  success is <<>>
\* when the body has no such field (an HTTP error).
Except(route, o) ==
    IF route = "get_wechat_signature"
    THEN [status_code |-> 200, success |-> <<FALSE>>, detail |-> o.detail]
    ELSE IF o.kind = "HTTPException"
    THEN [status_code |-> o.status_code, success |-> <<>>,
          detail |-> o.detail]
    ELSE [status_code |-> 500, success |-> <<>>,
          detail |-> FailureDetail(route, o.detail)]

\* yolo.py 371-372: except Exception as e: raise HTTPException(400, ...)
Wrap400(o) == HTTPError(400, "video data decoding failed: " \o o.detail)

\* What leaves the try block around a step when the step comes out as o.
Leaving(step, o) ==
    IF step.try = "wrap400" /\ o.kind = "Exception" THEN Wrap400(o) ELSE o

ResumeRetry(step, i) == i

\* Where control goes when step i raises: to the handler's except clauses
\* (0), or past the inner try block whose except clause swallows.
Resume(step, i) == IF step.try = "swallow" THEN step.resume ELSE 0

InitRequests ==
    /\ RequestsIdle
    /\ ScorerIdle
    /\ InvIdle
    /\ ModelsIdle
    /\ TokensIdle
    /\ FeaturesIdle
    /\ TopKIdle
    /\ PayloadIdle
    /\ ReadImageIdle
    /\ VideoIdle
    /\ OcrIdle

\* A request arrives at its handler.
Receive(req) ==
    /\ at = 0
    /\ request' = req
    /\ at' = 1
    /\ log' = <<>>
    /\ response' = <<>>
    /\ UNCHANGED reqOthers

\* The handler makes its next call, which comes out as o.
Call(o) ==
    /\ at >= 1
    /\ at <= Len(Steps(request))
    /\ LET step == Steps(request)[at]
       IN  /\ o \in step.outcomes
           /\ log' = Append(log, [op |-> step.op, ext |-> step.ext,
                                  outcome |-> Leaving(step, o)])
           /\ IF o.kind = "ok"
              THEN /\ at' = at + 1
                   /\ UNCHANGED response
              ELSE IF o.kind \in {"return_success", "return_failure"}
              THEN /\ at' = 0
                   /\ response' =
                        <<[status_code |-> o.status_code,
                           success |-> <<o.kind = "return_success">>,
                           detail |-> o.detail]>>
              ELSE IF Resume(step, at) # 0
              THEN /\ at' = Resume(step, at)
                   /\ UNCHANGED response
              ELSE /\ at' = 0
                   /\ response' =
                        <<Except(request.route, Leaving(step, o))>>
    /\ UNCHANGED request
    /\ UNCHANGED reqOthers

\* The handler reaches its return statement: {"success": True, ...}.
Return ==
    /\ at >= 1
    /\ at = Len(Steps(request)) + 1
    /\ response' = <<[status_code |-> 200, success |-> <<TRUE>>,
                      detail |-> "done"]>>
    /\ at' = 0
    /\ UNCHANGED <<request, log>>
    /\ UNCHANGED reqOthers

NextRequests ==
    \/ \E req \in Requests : Receive(req)
    \/ \E o \in UNION {st.outcomes : st \in
                          UNION {{Steps(req)[k] : k \in 1..Len(Steps(req))} :
                                   req \in Requests}} : Call(o)
    \/ Return

SpecRequests == InitRequests /\ [][NextRequests]_vars

(***************************************************************************)
(* Vocabulary of the claims about request handlers.                        *)
(***************************************************************************)
Responded == at = 0 /\ response # <<>>

\* The calls to external collaborators that failed during this request.
FailedCalls ==
    {i \in 1..Len(log) : log[i].ext /\ log[i].outcome.kind # "ok"}

\* The calls that raised an error during this request.
RaisingCalls ==
    {i \in 1..Len(log) : log[i].outcome.kind \in {"HTTPException", "Exception"}}

\* A failure response: an HTTP error, or an envelope with success false.
IsFailure(r) ==
    /\ r.success # <<TRUE>>
    /\ r.status_code >= 400 \/ r.success = <<FALSE>>

\* The response is a failure that carries the cause of failed call i.
CarriesCause(r, i) ==
    /\ IsFailure(r)
    /\ r.detail # ""
    /\ StrIn(log[i].outcome.detail, r.detail)

\* The failures a handler does not report: the auxiliary detection of
\* classify_image, and the answer 222202 (no face) in the Baidu face branch.
Unreported(i) ==
    \/ /\ request.route = "classify_image"
       /\ log[i].op \in {"get_model:detect", "model:detect:image"}
    \/ /\ request.route = "baidu_ai_detect"
       /\ request.api_type = "face"
       /\ log[i].outcome.code = 222202

NoRetry ==
    \A i \in FailedCalls :
        \A j \in (i + 1)..Len(log) : log[j].op # log[i].op

TranslatedToHTTPError(r, i) ==
    IF log[i].outcome.kind = "HTTPException"
    THEN /\ r.status_code = log[i].outcome.status_code
         /\ r.detail = log[i].outcome.detail
         /\ r.success = <<>>
    ELSE /\ r.status_code = 500
         /\ StrIn(log[i].outcome.detail, r.detail)
         /\ r.success = <<>>

\* C20 (as stated): any error raised while handling a request is translated
\* to an HTTP error response: an HTTPException keeps its status code and
\* detail, any other exception becomes HTTP 500 whose detail embeds the
\* exception message.
C20_Original ==
    Responded =>
        \A i \in RaisingCalls : TranslatedToHTTPError(response[1], i)

\* The errors caught by an inner try block whose except clause only logs.
Swallowed(i) ==
    \/ /\ request.route = "classify_image"
       /\ log[i].op \in {"get_model:detect", "model:detect:image"}
    \/ /\ request.route = "recognize_license_plate"
       /\ log[i].op = "PIL draw text"

\* C20 (amended): an error that reaches the except clauses closing a handler
\* is translated as stated, except in get_wechat_signature, which answers
\* HTTP 200 with success false and the detail or message as error; errors
\* of classify_image's auxiliary detection and of the licence-plate text
\* drawing are swallowed by an inner try block and the request goes on.
C20_Amended ==
    Responded =>
        \A i \in RaisingCalls :
            IF Swallowed(i)
            THEN i < Len(log) \/ response[1].success = <<TRUE>>
            ELSE IF request.route = "get_wechat_signature"
            THEN /\ response[1].status_code = 200
                 /\ response[1].success = <<FALSE>>
                 /\ response[1].detail = log[i].outcome.detail
            ELSE TranslatedToHTTPError(response[1], i)

\* get_wechat_signature answered HTTP 200 with success false after the
\* ticket request raised HTTPException(500).
C20_Witness ==
    /\ Responded
    /\ request.route = "get_wechat_signature"
    /\ Len(log) = 3
    /\ log[3].outcome.kind = "HTTPException"
    /\ response[1].status_code = 200
    /\ response[1].success = <<FALSE>>

(***************************************************************************)
(* SceneAnalyzer.analyze_image_features (api/scene.py 94-138).             *)
(*                                                                         *)
(* An image is given by what the code measures on it: its number of        *)
(* pixels n, the sum of its S and V channels (0..255 per pixel), the       *)
(* number of pixels Canny marks as edges (value 255, the others 0), the    *)
(* number of hue bins above 1 %, and the number of palette entries the     *)
(* 4096 pixels of the 64x64 thumbnail cycle through.  A mean divided by    *)
(* 255.0 is kept as the exact fraction [num, den].                         *)
(***************************************************************************)
Images ==
    [n : {20}, s_sum : {0, 3060, 3061, 5100}, v_sum : {2550},
     edge_pixels : {0, 3, 4, 20}, hue_bins : {30},
     palette : {1, 499, 500, 501, 1000}]

\* COLOR_THRESHOLDS (scene.py 89-92) and the literal 500 of line 126, the
\* first two as fractions.
ANIME_SATURATION == [num |-> 6, den |-> 10]

ANIME_EDGE_RATIO == [num |-> 15, den |-> 100]

ANIME_UNIQUE_COLORS == 500

\* a > b for fractions with positive denominators
Greater(a, b) == a.num * b.den > b.num * a.den

\* Entry k of the palette: entries k and k + 512 differ but fall into the
\* same quantisation cell.
PaletteColour(k) ==
    <<(k % 8) * 32 + (k \div 512), ((k \div 8) % 8) * 32 + 7,
      ((k \div 64) % 8) * 32 + 31>>

\* (small // 32) * 32
Quantise(c) == <<(c[1] \div 32) * 32, (c[2] \div 32) * 32, (c[3] \div 32) * 32>>

\* len(np.unique(small.reshape(-1, 3), axis=0)) over the 64 * 64 pixels
UniqueColours(img) ==
    Cardinality({Quantise(PaletteColour(i % img.palette)) : i \in 0..4095})

IsAnimeStyleLoose(saturation, edge_ratio, unique_colors) ==
    /\ Greater(saturation, ANIME_SATURATION)
       \/ saturation.num * ANIME_SATURATION.den
            = ANIME_SATURATION.num * saturation.den
    /\ Greater(edge_ratio, ANIME_EDGE_RATIO)
    /\ unique_colors < ANIME_UNIQUE_COLORS

\* Lines 123-127.
IsAnimeStyle(saturation, edge_ratio, unique_colors) ==
    /\ Greater(saturation, ANIME_SATURATION)
    /\ Greater(edge_ratio, ANIME_EDGE_RATIO)
    /\ unique_colors < ANIME_UNIQUE_COLORS

AnalyzeImageFeatures(img) ==
    LET saturation    == [num |-> img.s_sum, den |-> img.n * 255]
        edge_ratio    == [num |-> img.edge_pixels * 255, den |-> img.n * 255]
        unique_colors == UniqueColours(img)
    IN  [saturation |-> saturation,
         color_variety |-> [num |-> img.hue_bins, den |-> 180],
         edge_ratio |-> edge_ratio,
         unique_colors |-> unique_colors,
         is_anime_style |-> IsAnimeStyle(saturation, edge_ratio, unique_colors),
         brightness |-> [num |-> img.v_sum, den |-> img.n * 255]]

InitFeatures ==
    /\ input_image \in {<<img>> : img \in Images}
    /\ feature_dict = <<>>
    /\ ScorerIdle
    /\ InvIdle
    /\ ModelsIdle
    /\ TokensIdle
    /\ RequestsIdle
    /\ TopKIdle
    /\ PayloadIdle
    /\ ReadImageIdle
    /\ VideoIdle
    /\ OcrIdle

\* features = analyze_image_features(image)
Analyze ==
    /\ feature_dict = <<>>
    /\ feature_dict' = <<AnalyzeImageFeatures(input_image[1])>>
    /\ UNCHANGED input_image
    /\ UNCHANGED featOthers

NextFeatures == Analyze

SpecFeatures == InitFeatures /\ [][NextFeatures]_vars

\* C21: is_anime_style is true exactly when saturation > 0.6 and
\* edge_ratio > 0.15 and the unique quantised colour count < 500, all three
\* strict: it is false as soon as one of them fails, equality included.
C21_AnimeStyle ==
    feature_dict # <<>> =>
        LET img    == input_image[1]
            unique == IF img.palette < 512 THEN img.palette ELSE 512
        IN  /\ feature_dict[1].unique_colors = unique
            /\ feature_dict[1].is_anime_style
                 <=> /\ 10 * img.s_sum > 6 * 255 * img.n
                     /\ 100 * img.edge_pixels > 15 * img.n
                     /\ unique < 500
            /\ 10 * img.s_sum = 6 * 255 * img.n
                  => ~feature_dict[1].is_anime_style
            /\ 100 * img.edge_pixels = 15 * img.n
                  => ~feature_dict[1].is_anime_style
            /\ unique = 500 => ~feature_dict[1].is_anime_style

\* An image whose saturation is exactly 0.6, with edge ratio 0.2 and 499
\* colours, was analysed and is not anime style.
C21_Witness ==
    /\ feature_dict # <<>>
    /\ input_image[1].s_sum = 3060
    /\ input_image[1].edge_pixels = 4
    /\ input_image[1].palette = 499
    /\ ~feature_dict[1].is_anime_style

(***************************************************************************)
(* Top-k classification: api/yolo.py 135-152, api_server.py 665-683 and    *)
(* YOLO11Vision.classify_image (main.py 69-83).  probs is the model's      *)
(* probability vector, class id -> confidence; Probs.top5 of the library   *)
(* holds the ids of the (at most) five most probable classes, most         *)
(* probable first, and Probs.top5conf their confidences.                   *)
(***************************************************************************)
MaxClasses == 7

\* Three probability vectors over n classes, without ties: rising with the
\* class id, falling with it, and scrambled.
ProbVectors(n) ==
    {[i \in 1..n |-> i], [i \in 1..n |-> n + 1 - i], [i \in 1..n |-> (3 * i) % 8]}

\* The ids of ps ordered by falling confidence (ties by id).
RECURSIVE Descending(_, _)
Descending(ps, ids) ==
    IF ids = {} THEN <<>>
    ELSE LET best == CHOOSE i \in ids :
                        \A j \in ids : \/ ps[i] > ps[j]
                                       \/ ps[i] = ps[j] /\ i <= j
         IN  <<best>> \o Descending(ps, ids \ {best})

\* probs.top5
Top5(ps) == Prefix(Descending(ps, DOMAIN ps), 5)

\* probs.top5[:top_k] zipped with probs.top5conf[:top_k]
Classify(ps, k) ==
    LET top_indices == Prefix(Top5(ps), k)
    IN  [j \in 1..Len(top_indices) |->
            [class_id |-> top_indices[j], confidence |-> ps[top_indices[j]]]]

InitTopK ==
    /\ \E n \in 1..MaxClasses : probs \in ProbVectors(n)
    /\ top_k \in 1..Len(probs)
    /\ top_results = <<>>
    /\ ScorerIdle
    /\ InvIdle
    /\ ModelsIdle
    /\ TokensIdle
    /\ RequestsIdle
    /\ FeaturesIdle
    /\ PayloadIdle
    /\ ReadImageIdle
    /\ VideoIdle
    /\ OcrIdle

\* The classify endpoint builds data.classifications.
ClassifyEndpoint ==
    /\ top_results = <<>>
    /\ top_results' = <<[by |-> "endpoint", list |-> Classify(probs, top_k)]>>
    /\ UNCHANGED <<probs, top_k>>
    /\ UNCHANGED topOthers

\* YOLO11Vision.classify_image builds results.
ClassifyVision ==
    /\ top_results = <<>>
    /\ top_results' = <<[by |-> "YOLO11Vision", list |-> Classify(probs, top_k)]>>
    /\ UNCHANGED <<probs, top_k>>
    /\ UNCHANGED topOthers

NextTopK == ClassifyEndpoint \/ ClassifyVision

SpecTopK == InitTopK /\ [][NextTopK]_vars

\* C22: for top_k = k >= 1 on a model with at least k classes the result has
\* exactly k entries, which are the k most probable classes in falling order
\* of confidence.
C22_TopK ==
    top_results # <<>> =>
        LET list == top_results[1].list
        IN  /\ Len(list) = top_k
            /\ \A j \in 1..Len(list) :
                  /\ list[j].confidence = probs[list[j].class_id]
                  /\ Cardinality({c \in DOMAIN probs :
                                     probs[c] > list[j].confidence}) = j - 1

\* ---------------------------------------------------------------------
\* The validity rule of the WeChat cache and the entries a refresh writes,
\* checked on SpecTokens.

\* The lifetime the vendor response that carried value grants.
LifetimeOf(value) ==
    IF value.expires_in = <<>> THEN 7200 ELSE value.expires_in[1]

\* Coroutine c leaves the await of the token request with a token.
TokenGranted(c) ==
    /\ coros[c].pc = "await_token"
    /\ coros'[c].pc \in {"done", "await_ticket"}

\* Coroutine c leaves the await of the ticket request with a ticket.
TicketGranted(c) ==
    /\ coros[c].pc = "await_ticket"
    /\ coros'[c].pc = "done"

\* C23: get_access_token and get_jsapi_ticket return the cached value, with
\* no HTTP request, exactly when a value is cached whose recorded expiry is
\* more than 300 seconds after the time of the call, so a value served from
\* the cache is never within 300 seconds of its recorded expiry; otherwise
\* the call goes on to request a new value (one request is sent when WeChat
\* is configured), and the value the vendor grants is recorded with the
\* expiry (time at the start of the call) + expires_in, 7200 when the
\* response has no expires_in.
C23_CacheValidity ==
    [][\A c \in Coroutines :
         LET tokenValid  == /\ wechat.access_token # <<>>
                            /\ wechat.access_token_expires - now > 300
             ticketValid == /\ wechat.jsapi_ticket # <<>>
                            /\ wechat.jsapi_ticket_expires - now > 300
             requests    == sent.wx_token + sent.wx_ticket
             requests2   == sent'.wx_token + sent'.wx_ticket
         IN  /\ StartsCall(c, "token") =>
                   /\ tokenValid <=> (coros'[c].pc = "done" /\ sent' = sent)
                   /\ tokenValid => coros'[c].ret = wechat.access_token
                   /\ ~tokenValid /\ keys.wechat =>
                         /\ sent'.wx_token = sent.wx_token + 1
                         /\ coros'[c].pc = "await_token"
             /\ StartsCall(c, "ticket") =>
                   /\ ticketValid <=> (coros'[c].pc = "done" /\ sent' = sent)
                   /\ ticketValid => coros'[c].ret = wechat.jsapi_ticket
                   /\ ~ticketValid /\ (keys.wechat \/ tokenValid) =>
                         /\ requests2 = requests + 1
                         /\ coros'[c].pc \in {"await_token", "await_ticket"}
             /\ TokenGranted(c) =>
                   /\ wechat'.access_token # <<>>
                   /\ wechat'.access_token_expires =
                         coros[c].token_time
                           + LifetimeOf(wechat'.access_token[1])
                   /\ coros[c].kind = "token" =>
                         coros'[c].ret = wechat'.access_token
             /\ TicketGranted(c) =>
                   /\ wechat'.jsapi_ticket # <<>>
                   /\ wechat'.jsapi_ticket_expires =
                         coros[c].current_time
                           + LifetimeOf(wechat'.jsapi_ticket[1])
                   /\ coros'[c].ret = wechat'.jsapi_ticket]_vars

\* A get_jsapi_ticket call that started before the clock moved was granted a
\* ticket without expires_in, recorded with the expiry start + 7200, and a
\* later call was served that ticket from the cache.
C23_Witness ==
    \E c, d \in Coroutines :
        /\ coros[c].kind = "ticket" /\ coros[c].pc = "done"
        /\ coros[c].ret = wechat.jsapi_ticket
        /\ coros[c].ret[1].expires_in = <<>>
        /\ now > coros[c].current_time
        /\ wechat.jsapi_ticket_expires = coros[c].current_time + 7200
        /\ coros[d].kind = "ticket" /\ coros[d].pc = "done"
        /\ coros[d].current_time > coros[c].current_time
        /\ coros[d].ret = coros[c].ret
        /\ sent.wx_ticket = 1

\* C24: a failed refresh leaves the cache entry alone (a get_access_token
\* that raises leaves the cached token and its expiry unchanged, a failed
\* ticket request leaves the cached ticket and its expiry unchanged), and
\* under every interleaving of the calls the cached value and the cached
\* expiry are written together from one vendor response: whenever either
\* changes, the value is the one just granted and the expiry is the start
\* time of the call that requested it plus the lifetime of that response.
C24_CacheEntryConsistent ==
    [][/\ \A c \in Coroutines :
            coros[c].pc # "raised" /\ coros'[c].pc = "raised" =>
               /\ coros[c].pc \in {"idle", "await_token"} =>
                     /\ wechat'.access_token = wechat.access_token
                     /\ wechat'.access_token_expires
                           = wechat.access_token_expires
               /\ coros[c].pc = "await_ticket" =>
                     /\ wechat'.jsapi_ticket = wechat.jsapi_ticket
                     /\ wechat'.jsapi_ticket_expires
                           = wechat.jsapi_ticket_expires
       /\ (\/ wechat'.access_token # wechat.access_token
           \/ wechat'.access_token_expires # wechat.access_token_expires) =>
             \E c \in Coroutines :
                /\ TokenGranted(c)
                /\ wechat'.access_token # <<>>
                /\ wechat'.access_token[1].serial = granted'.wx_token
                /\ granted'.wx_token = granted.wx_token + 1
                /\ wechat'.access_token_expires =
                      coros[c].token_time
                        + LifetimeOf(wechat'.access_token[1])
       /\ (\/ wechat'.jsapi_ticket # wechat.jsapi_ticket
           \/ wechat'.jsapi_ticket_expires # wechat.jsapi_ticket_expires) =>
             \E c \in Coroutines :
                /\ TicketGranted(c)
                /\ wechat'.jsapi_ticket # <<>>
                /\ wechat'.jsapi_ticket[1].serial = granted'.wx_ticket
                /\ granted'.wx_ticket = granted.wx_ticket + 1
                /\ wechat'.jsapi_ticket_expires =
                      coros[c].current_time
                        + LifetimeOf(wechat'.jsapi_ticket[1])]_vars

\* Two calls each sent a token request: one failed at the vendor, the
\* other, started later, was granted a token, and the cache holds that token
\* with the expiry of its own response.
C24_Witness ==
    \E c, d \in Coroutines :
        /\ coros[c].kind = "token" /\ coros[c].pc = "raised"
        /\ coros[c].status_code = 500
        /\ sent.wx_token = 2 /\ granted.wx_token = 1
        /\ coros[d].kind = "token" /\ coros[d].pc = "done"
        /\ coros[d].token_time > coros[c].token_time
        /\ wechat.access_token = coros[d].ret
        /\ wechat.access_token_expires =
              coros[d].token_time + LifetimeOf(coros[d].ret[1])

\* ---------------------------------------------------------------------
\* The size validator of the request models and the base64 decoders of the
\* handlers (api/models.py 9-32, api/utils.py 15-38, api/baidu.py 27-33,
\* api/tencent.py 30-32, api/yolo.py 364-372).  A field is the sequence of
\* the lengths of its segments, the segments being separated by commas.

MaxSegments == 3

IMAGE_MAX_SIZE == 10 * 1024 * 1024

VIDEO_MAX_SIZE == 20 * 1024 * 1024

\* Segment lengths around the minimum length and the two size limits.
SegmentLengths == {0, 100, 13981013, 13981014, 27962026, 27962027}

Base64Fields == UNION {[1..n -> SegmentLengths] : n \in 1..MaxSegments}

Handlers == {"read_image_from_base64", "baidu", "tencent", "video"}

RECURSIVE SubstringLen(_, _, _)
\* The number of characters of segments from..to of value, commas included.
SubstringLen(value, from, to) ==
    IF from > to THEN 0
    ELSE IF from = to THEN value[from]
    ELSE value[from] + 1 + SubstringLen(value, from + 1, to)

StrLen(value) == SubstringLen(value, 1, Len(value))

HasComma(value) == Len(value) > 1

\* value, unsplit.
Whole(value) == [from |-> 1, to |-> Len(value)]

\* value.split(',')[1]
SplitSecond(value) == [from |-> 2, to |-> 2]

\* value.split(',', 1)[1]
SplitOnce(value) == [from |-> 2, to |-> Len(value)]

\* The substring validate_base64_size measures.
Measured(value) == IF HasComma(value) THEN SplitSecond(value) ELSE Whole(value)

\* validate_base64_size returns the value (TRUE) or raises ValueError.
validate_base64_size(value, max_size) ==
    \/ StrLen(value) = 0
    \/ LET data == Measured(value)
       IN  ~(3 * SubstringLen(value, data.from, data.to) > 4 * max_size)

MaxSizeOf(h) == IF h = "video" THEN VIDEO_MAX_SIZE ELSE IMAGE_MAX_SIZE

\* The substring read_image_from_base64 decodes, none when it raises on a
\* string of fewer than 100 characters.
ReadImagePayload(base64_str) ==
    IF StrLen(base64_str) < 100 THEN <<>>
    ELSE IF HasComma(base64_str) THEN <<SplitOnce(base64_str)>>
    ELSE <<Whole(base64_str)>>

\* The substring the Baidu, Tencent and video handlers decode or hand on.
HandlerPayload(image_base64) ==
    IF HasComma(image_base64) THEN <<SplitSecond(image_base64)>>
    ELSE <<Whole(image_base64)>>

InitPayload ==
    /\ field_value \in Base64Fields
    /\ handler \in Handlers
    /\ validated = "pending"
    /\ payload = <<>>
    /\ ScorerIdle
    /\ InvIdle
    /\ ModelsIdle
    /\ TokensIdle
    /\ RequestsIdle
    /\ FeaturesIdle
    /\ TopKIdle
    /\ ReadImageIdle
    /\ VideoIdle
    /\ OcrIdle

\* Pydantic runs the validator of the request model before the handler.
Validate ==
    /\ validated = "pending"
    /\ validated' = IF validate_base64_size(field_value, MaxSizeOf(handler))
                    THEN "accepted" ELSE "rejected"
    /\ UNCHANGED <<field_value, handler, payload>>
    /\ UNCHANGED payOthers

ReadImageFromBase64 ==
    /\ validated = "accepted" /\ handler = "read_image_from_base64"
    /\ validated' = "handled"
    /\ payload' = ReadImagePayload(field_value)
    /\ UNCHANGED <<field_value, handler>>
    /\ UNCHANGED payOthers

BaiduDecode ==
    /\ validated = "accepted" /\ handler = "baidu"
    /\ validated' = "handled"
    /\ payload' = HandlerPayload(field_value)
    /\ UNCHANGED <<field_value, handler>>
    /\ UNCHANGED payOthers

TencentDecode ==
    /\ validated = "accepted" /\ handler = "tencent"
    /\ validated' = "handled"
    /\ payload' = HandlerPayload(field_value)
    /\ UNCHANGED <<field_value, handler>>
    /\ UNCHANGED payOthers

VideoDecode ==
    /\ validated = "accepted" /\ handler = "video"
    /\ validated' = "handled"
    /\ payload' = HandlerPayload(field_value)
    /\ UNCHANGED <<field_value, handler>>
    /\ UNCHANGED payOthers

NextPayload ==
    \/ Validate
    \/ ReadImageFromBase64
    \/ BaiduDecode
    \/ TencentDecode
    \/ VideoDecode

SpecPayload == InitPayload /\ [][NextPayload]_vars

\* C25: for every request the size validator accepted, the substring the
\* handler decodes is the substring validate_base64_size measured, so its
\* estimated size (length x 3/4) is at most 10 MB, 20 MB for the video
\* endpoint, whatever the number of commas in the field.
C25_DecodedIsMeasured ==
    payload # <<>> =>
        /\ payload[1] = Measured(field_value)
        /\ 3 * SubstringLen(field_value, payload[1].from, payload[1].to)
              <= 4 * MaxSizeOf(handler)

\* ---------------------------------------------------------------------
\* read_image_from_base64 (api/utils.py 15-63).  The input is its length
\* and what each library call makes of it: base64.b64decode returns bytes
\* or raises, np.frombuffer / cv2.imdecode return an image, return None or
\* raise, Image.open / convert / cvtColor return an image or raise.

MIN_BASE64_LENGTH == 100

InputLengths == {0, 99, 100, 101}

Base64Inputs ==
    [len       : InputLengths,
     b64decode : {"bytes", "binascii.Error"},
     imdecode  : {"image", "None", "cv2.error"},
     pil       : {"image", "UnidentifiedImageError"}]

Image(by) == [kind |-> "image", status_code |-> 0, detail |-> by, code |-> 0]

\* Line 18: the string is empty or shorter than 100 characters.
TooShort(base64_str) == base64_str.len = 0 \/ base64_str.len < MIN_BASE64_LENGTH

OuterExcept500(e) ==
    IF e.kind = "HTTPException" THEN e
    ELSE HTTPError(500, "failed to read the image: " \o e.detail)

\* Lines 59-63: an HTTPException is re-raised, every other exception becomes
\* HTTPException(400).
OuterExcept(e) ==
    IF e.kind = "HTTPException" THEN e
    ELSE HTTPError(400, "failed to read the image: " \o e.detail)

InitReadImage ==
    /\ base64_input \in Base64Inputs
    /\ read_at = "check"
    /\ attempts = <<>>
    /\ read_result = <<>>
    /\ ScorerIdle
    /\ InvIdle
    /\ ModelsIdle
    /\ TokensIdle
    /\ RequestsIdle
    /\ FeaturesIdle
    /\ TopKIdle
    /\ PayloadIdle
    /\ VideoIdle
    /\ OcrIdle

\* Lines 18-29: the length check, the removal of the data URL prefix and the
\* strip.
CheckLength ==
    /\ read_at = "check"
    /\ IF TooShort(base64_input)
       THEN /\ read_at' = "left"
            /\ read_result' =
                 <<OuterExcept(HTTPError(400, "Base64 data too short or empty"))>>
       ELSE /\ read_at' = "b64decode"
            /\ UNCHANGED read_result
    /\ UNCHANGED <<base64_input, attempts>>
    /\ UNCHANGED readOthers

\* Lines 32-36.
DecodeBase64 ==
    /\ read_at = "b64decode"
    /\ attempts' = Append(attempts, "b64decode")
    /\ IF base64_input.b64decode = "bytes"
       THEN /\ read_at' = "imdecode"
            /\ UNCHANGED read_result
       ELSE /\ read_at' = "left"
            /\ read_result' =
                 <<OuterExcept(HTTPError(400, "Base64 decoding failed: "
                                              \o base64_input.b64decode))>>
    /\ UNCHANGED base64_input
    /\ UNCHANGED readOthers

\* Lines 41-44 and 56-57.
DecodeOpenCV ==
    /\ read_at = "imdecode"
    /\ attempts' = Append(attempts, "imdecode")
    /\ IF base64_input.imdecode = "image"
       THEN /\ read_at' = "left"
            /\ read_result' = <<Image("cv2")>>
       ELSE IF base64_input.imdecode = "None"
       THEN /\ read_at' = "pil"
            /\ UNCHANGED read_result
       ELSE /\ read_at' = "left"
            /\ read_result' = <<OuterExcept(Error(base64_input.imdecode))>>
    /\ UNCHANGED base64_input
    /\ UNCHANGED readOthers

\* Lines 45-57.
DecodePIL ==
    /\ read_at = "pil"
    /\ attempts' = Append(attempts, "Image.open")
    /\ read_at' = "left"
    /\ read_result' =
         IF base64_input.pil = "image"
         THEN <<Image("PIL")>>
         ELSE <<OuterExcept(HTTPError(400, "cannot parse the image data: "
                                           \o base64_input.pil))>>
    /\ UNCHANGED base64_input
    /\ UNCHANGED readOthers

NextReadImage ==
    \/ CheckLength
    \/ DecodeBase64
    \/ DecodeOpenCV
    \/ DecodePIL

SpecReadImage == InitReadImage /\ [][NextReadImage]_vars

\* The input is one read_image_from_base64 fails on.
Undecodable(i) ==
    \/ i.len < 100
    \/ i.b64decode # "bytes"
    \/ i.imdecode = "cv2.error"
    \/ i.imdecode = "None" /\ i.pil # "image"

\* C26: every failure of read_image_from_base64 (a string that is empty or
\* shorter than 100 characters, a base64 decoding failure, data neither
\* OpenCV nor PIL can decode, any other exception raised in the function)
\* leaves the function as an HTTPException with status 400 and every other
\* input as an image, and the PIL fallback is attempted only after OpenCV
\* returned no image.
C26_FailuresAre400 ==
    /\ read_at = "left" =>
          /\ read_result # <<>>
          /\ IF Undecodable(base64_input)
             THEN /\ read_result[1].kind = "HTTPException"
                  /\ read_result[1].status_code = 400
             ELSE read_result[1].kind = "image"
    /\ \A k \in DOMAIN attempts :
          attempts[k] = "Image.open" =>
             /\ k > 1 /\ attempts[k - 1] = "imdecode"
             /\ base64_input.imdecode = "None"
             /\ base64_input.b64decode = "bytes"

\* The call left with HTTPException 400 after OpenCV returned None and PIL
\* failed too.
C26_Witness ==
    /\ read_at = "left"
    /\ attempts = <<"b64decode", "imdecode", "Image.open">>
    /\ read_result[1].kind = "HTTPException"
    /\ read_result[1].status_code = 400

\* ---------------------------------------------------------------------
\* video_pose_estimation (api/yolo.py 355-621): the frame loop and the
\* temporary files.

MaxClipFrames == 202

KEYPOINTS_LIMIT == 100

SkipFrames == {0, 1, 2}

Outcomes == {"ok", "raises"}

NoFiles == [temp_input |-> "absent", temp_output |-> "absent"]

ProcessedShifted(idx, skip_frames) == (idx + 1) % (skip_frames + 1) = 0

\* Line 500: the frame with loop index idx is run through the pose model.
Processed(idx, skip_frames) == idx % (skip_frames + 1) = 0

\* Lines 610-615: the finally block deletes the files that exist.
Finally(files) ==
    [temp_input  |-> IF files.temp_input = "present" THEN "deleted"
                     ELSE files.temp_input,
     temp_output |-> IF files.temp_output = "present" THEN "deleted"
                     ELSE files.temp_output]

\* What leaves the handler with an HTTPException.
VideoError(status_code) ==
    [status_code |-> status_code, processed_frames |-> 0,
     keypoints_data |-> <<>>, annotated_video |-> <<>>]

InitVideo ==
    /\ video_params \in [skip_frames : SkipFrames, return_video : BOOLEAN]
    /\ clip_frames \in 0..MaxClipFrames
    /\ vpc = "decode"
    /\ cap_pos = 0
    /\ frame_idx = 0
    /\ processed_frames = 0
    /\ all_poses = <<>>
    /\ written = <<>>
    /\ temp_files = NoFiles
    /\ video_response = <<>>
    /\ ScorerIdle
    /\ InvIdle
    /\ ModelsIdle
    /\ TokensIdle
    /\ RequestsIdle
    /\ FeaturesIdle
    /\ TopKIdle
    /\ PayloadIdle
    /\ ReadImageIdle
    /\ OcrIdle

\* Lines 364-372: the base64 payload is decoded; a failure is HTTP 400.
DecodeVideoData(outcome) ==
    /\ vpc = "decode"
    /\ IF outcome = "ok"
       THEN /\ vpc' = "save"
            /\ UNCHANGED video_response
       ELSE /\ vpc' = "left"
            /\ video_response' = <<VideoError(400)>>
    /\ UNCHANGED <<video_params, clip_frames, cap_pos, frame_idx,
                   processed_frames, all_poses, written, temp_files>>
    /\ UNCHANGED vidOthers

\* Lines 375-379: the temporary input file is created (delete=False) and the
\* bytes are written; a failing write leaves through the outer except
\* (619-621), the inner try with its finally has not been entered.
SaveTempInput(outcome) ==
    /\ vpc = "save"
    /\ temp_files' = [temp_files EXCEPT !.temp_input = "present"]
    /\ IF outcome = "ok"
       THEN /\ vpc' = "open"
            /\ UNCHANGED video_response
       ELSE /\ vpc' = "left"
            /\ video_response' = <<VideoError(500)>>
    /\ UNCHANGED <<video_params, clip_frames, cap_pos, frame_idx,
                   processed_frames, all_poses, written>>
    /\ UNCHANGED vidOthers

\* Lines 383-385: a clip that does not open is HTTP 400, after the finally.
OpenVideo(opened) ==
    /\ vpc = "open"
    /\ IF opened
       THEN /\ vpc' = "load"
            /\ UNCHANGED <<temp_files, video_response>>
       ELSE /\ vpc' = "left"
            /\ temp_files' = Finally(temp_files)
            /\ video_response' = <<VideoError(400)>>
    /\ UNCHANGED <<video_params, clip_frames, cap_pos, frame_idx,
                   processed_frames, all_poses, written>>
    /\ UNCHANGED vidOthers

\* Line 396.
LoadPoseModel(outcome) ==
    /\ vpc = "load"
    /\ IF outcome = "ok"
       THEN /\ vpc' = "prepare"
            /\ UNCHANGED <<temp_files, video_response>>
       ELSE /\ vpc' = "left"
            /\ temp_files' = Finally(temp_files)
            /\ video_response' = <<VideoError(500)>>
    /\ UNCHANGED <<video_params, clip_frames, cap_pos, frame_idx,
                   processed_frames, all_poses, written>>
    /\ UNCHANGED vidOthers

\* Lines 407-413 and 489-492.
PrepareOutput ==
    /\ vpc = "prepare"
    /\ vpc' = "loop"
    /\ temp_files' = IF video_params.return_video
                     THEN [temp_files EXCEPT !.temp_output = "present"]
                     ELSE temp_files
    /\ frame_idx' = 0
    /\ processed_frames' = 0
    /\ all_poses' = <<>>
    /\ UNCHANGED <<video_params, clip_frames, cap_pos, written,
                   video_response>>
    /\ UNCHANGED vidOthers

\* Lines 494-576: one iteration of the loop on the frame cap.read() returns.
ReadFrame(outcome) ==
    /\ vpc = "loop"
    /\ cap_pos < clip_frames
    /\ cap_pos' = cap_pos + 1
    /\ LET frame == cap_pos
       IN  IF Processed(frame_idx, video_params.skip_frames)
           THEN IF outcome = "ok"
                THEN /\ all_poses' = Append(all_poses,
                                            [frame |-> frame_idx,
                                             image |-> frame])
                     /\ processed_frames' = processed_frames + 1
                     /\ written' =
                          IF video_params.return_video
                          THEN Append(written, [image |-> frame,
                                                annotated |-> TRUE])
                          ELSE written
                     /\ frame_idx' = frame_idx + 1
                     /\ UNCHANGED <<vpc, temp_files, video_response>>
                ELSE /\ vpc' = "left"
                     /\ temp_files' = Finally(temp_files)
                     /\ video_response' = <<VideoError(500)>>
                     /\ UNCHANGED <<all_poses, processed_frames, written,
                                    frame_idx>>
           ELSE /\ outcome = "ok"
                /\ written' =
                     IF video_params.return_video
                     THEN Append(written, [image |-> frame,
                                           annotated |-> FALSE])
                     ELSE written
                /\ frame_idx' = frame_idx + 1
                /\ UNCHANGED <<vpc, temp_files, video_response, all_poses,
                               processed_frames>>
    /\ UNCHANGED <<video_params, clip_frames>>
    /\ UNCHANGED vidOthers

\* Lines 496-497 and 578-615: cap.read() returns no frame, the loop ends, the
\* response is built (reading the output file can fail), the finally block
\* runs and the response or the HTTP 500 leaves.
Respond(outcome) ==
    /\ vpc = "loop"
    /\ cap_pos >= clip_frames
    /\ vpc' = "left"
    /\ temp_files' = Finally(temp_files)
    /\ video_response' =
         IF outcome = "ok"
         THEN <<[status_code      |-> 200,
                 processed_frames |-> processed_frames,
                 keypoints_data   |-> Prefix(all_poses, KEYPOINTS_LIMIT),
                 annotated_video  |-> IF video_params.return_video
                                      THEN <<written>> ELSE <<>>]>>
         ELSE <<VideoError(500)>>
    /\ UNCHANGED <<video_params, clip_frames, cap_pos, frame_idx,
                   processed_frames, all_poses, written>>
    /\ UNCHANGED vidOthers

NextVideo ==
    \/ \E outcome \in Outcomes : DecodeVideoData(outcome)
    \/ \E outcome \in Outcomes : SaveTempInput(outcome)
    \/ \E opened \in BOOLEAN : OpenVideo(opened)
    \/ \E outcome \in Outcomes : LoadPoseModel(outcome)
    \/ PrepareOutput
    \/ \E outcome \in Outcomes : ReadFrame(outcome)
    \/ \E outcome \in Outcomes : Respond(outcome)

SpecVideo == InitVideo /\ [][NextVideo]_vars

\* The frames 0 .. n-1 the claim says are run through the pose model.
EveryNth(n, s) == {i \in 0..(n - 1) : i % (s + 1) = 0}

\* ceil(n / d)
CeilDiv(n, d) == (n + d - 1) \div d

\* C27: with skip_frames s >= 0 and a clip of N frames, the frames are
\* handled once each and in order; frame i is run through the pose model
\* exactly when i mod (s + 1) = 0, so processed_frames is ceil(N / (s + 1))
\* at the end; with return_video every frame is written exactly once, the
\* annotated frame when it was processed and the raw frame otherwise, so the
\* output has N frames; the loop ends when the clip is exhausted; and
\* keypoints_data holds the first 100 processed frames at most.
C27_FrameLoop ==
    vpc \in {"loop", "left"} =>
       LET s == video_params.skip_frames
       IN  /\ frame_idx <= clip_frames
           /\ vpc = "loop" => frame_idx = cap_pos
           /\ Len(all_poses) = processed_frames
           /\ processed_frames = CeilDiv(frame_idx, s + 1)
           /\ {p.image : p \in {all_poses[k] : k \in DOMAIN all_poses}}
                 = EveryNth(frame_idx, s)
           /\ \A k \in DOMAIN all_poses :
                 /\ all_poses[k].frame = all_poses[k].image
                 /\ all_poses[k].image = (k - 1) * (s + 1)
           /\ video_params.return_video =>
                 /\ Len(written) = frame_idx
                 /\ \A k \in DOMAIN written :
                       /\ written[k].image = k - 1
                       /\ written[k].annotated <=> (k - 1) % (s + 1) = 0
           /\ (video_response # <<>> /\ video_response[1].status_code = 200) =>
                 LET data == video_response[1]
                 IN  /\ frame_idx = clip_frames /\ cap_pos = clip_frames
                     /\ data.processed_frames = CeilDiv(clip_frames, s + 1)
                     /\ Len(data.keypoints_data) <= 100
                     /\ Len(data.keypoints_data)
                           = IF processed_frames < 100 THEN processed_frames
                             ELSE 100
                     /\ \A k \in DOMAIN data.keypoints_data :
                           data.keypoints_data[k] = all_poses[k]
                     /\ video_params.return_video =>
                           /\ data.annotated_video # <<>>
                           /\ Len(data.annotated_video[1]) = clip_frames

\* A clip of 201 frames was answered with skip_frames 1: 101 frames were
\* processed, every other frame was written raw, the output has 201 frames
\* and keypoints_data has 100 entries.
C27_Witness ==
    /\ vpc = "left" /\ video_response # <<>>
    /\ video_response[1].status_code = 200
    /\ video_params.return_video
    /\ video_params.skip_frames = 1
    /\ clip_frames = 201
    /\ processed_frames = 101
    /\ Len(written) = 201 /\ ~written[2].annotated
    /\ Len(video_response[1].keypoints_data) = 100

\* C28: on every exit of video_pose_estimation after the temporary input
\* file was created (success, HTTP 400 for a clip that does not open, any
\* exception turned into HTTP 500) the temporary input file, and the
\* temporary output file if one was created, are deleted when the response
\* or the error leaves the handler.
C28_TempFilesDeleted ==
    (vpc = "left" /\ temp_files.temp_input # "absent") =>
       /\ temp_files.temp_input = "deleted"
       /\ temp_files.temp_output # "present"

\* ---------------------------------------------------------------------
\* The question_segment branch of baidu_free_ocr (api/baidu_free.py
\* 161-207).  A text is the sequence of its characters.

MaxLines == 3

\* Recognised texts: empty, plain, starting with 1, starting with 0, with
\* the question character at position 5 and at position 6, and a digit
\* after a leading blank.
Texts ==
    { <<>>,
      <<"a">>,
      <<"1", "a">>,
      <<"0", "a">>,
      <<"a", "a", "a", "a", "题">>,
      <<"a", "a", "a", "a", "a", "题">>,
      <<" ", "2">> }

WordsResults == UNION {[1..n -> Texts] : n \in 0..MaxLines}

DigitChar(d) ==
    CASE d = 0 -> "0" [] d = 1 -> "1" [] d = 2 -> "2" [] d = 3 -> "3"
      [] d = 4 -> "4" [] d = 5 -> "5" [] d = 6 -> "6" [] d = 7 -> "7"
      [] d = 8 -> "8" [] d = 9 -> "9"

\* str(i) for 1 <= i <= 99
Str(i) ==
    IF i < 10 THEN <<DigitChar(i)>>
    ELSE <<DigitChar(i \div 10), DigitChar(i % 10)>>

\* text.startswith(prefix)
StartsWith(text, prefix) ==
    /\ Len(text) >= Len(prefix)
    /\ SubSeq(text, 1, Len(prefix)) = prefix

QuestionStartAnywhere(text) ==
    \/ \E i \in 1..99 : StartsWith(text, Str(i))
    \/ \E k \in 1..Len(text) : text[k] = "题"

\* Line 179: the test that starts a new question.
QuestionStart(text) ==
    \/ \E i \in 1..99 : StartsWith(text, Str(i))
    \/ \E k \in 1..Min(5, Len(text)) : text[k] = "题"

RECURSIVE Strip(_)
\* str.strip() for the blank
Strip(s) ==
    IF s = <<>> THEN s
    ELSE IF Head(s) = " " THEN Strip(Tail(s))
    ELSE IF s[Len(s)] = " " THEN Strip(SubSeq(s, 1, Len(s) - 1))
    ELSE s

\* Lines 181-185 and 192-196: the entry appended to questions.
Question(index, content) == [index |-> index, content |-> Strip(content)]

InitOcr ==
    /\ words_result \in WordsResults
    /\ line_no = 1
    /\ questions = <<>>
    /\ current_question = <<>>
    /\ question_index = 0
    /\ ocr_data = <<>>
    /\ ScorerIdle
    /\ InvIdle
    /\ ModelsIdle
    /\ TokensIdle
    /\ RequestsIdle
    /\ FeaturesIdle
    /\ TopKIdle
    /\ PayloadIdle
    /\ ReadImageIdle
    /\ VideoIdle

\* Lines 177-189: one iteration of the loop over words_result.
SegmentLine ==
    /\ ocr_data = <<>>
    /\ line_no <= Len(words_result)
    /\ LET text == words_result[line_no]
       IN  IF QuestionStart(text)
           THEN /\ questions' =
                     IF current_question # <<>>
                     THEN Append(questions,
                                 Question(question_index, current_question))
                     ELSE questions
                /\ question_index' = question_index + 1
                /\ current_question' = text
           ELSE /\ current_question' = current_question \o <<" ">> \o text
                /\ UNCHANGED <<questions, question_index>>
    /\ line_no' = line_no + 1
    /\ UNCHANGED <<words_result, ocr_data>>
    /\ UNCHANGED ocrOthers

\* Lines 191-207: the last question is appended and the response is built.
FinishSegment ==
    /\ ocr_data = <<>>
    /\ line_no > Len(words_result)
    /\ questions' =
         IF current_question # <<>>
         THEN Append(questions, Question(question_index, current_question))
         ELSE questions
    /\ ocr_data' = <<[questions |-> questions', count |-> Len(questions')]>>
    /\ UNCHANGED <<words_result, line_no, current_question, question_index>>
    /\ UNCHANGED ocrOthers

NextOcr ==
    \/ SegmentLine
    \/ FinishSegment

SpecOcr == InitOcr /\ [][NextOcr]_vars

\* A line starts a question: its first character is a digit 1-9 or the
\* question character is among its first five characters.
StartsNewQuestion(text) ==
    \/ Len(text) >= 1 /\ text[1] \in {"1", "2", "3", "4", "5", "6", "7", "8", "9"}
    \/ \E k \in 1..5 : k <= Len(text) /\ text[k] = "题"

\* The number of question starts among the first i lines: the question line
\* i belongs to, 0 for the lines before the first start.
QuestionOf(lines, i) ==
    Cardinality({j \in 1..i : StartsNewQuestion(lines[j])})

RECURSIVE Joined(_, _, _)
\* The lines i..Len(lines) that belong to question q, joined by blanks.
Joined(lines, q, i) ==
    IF i > Len(lines) THEN <<>>
    ELSE IF QuestionOf(lines, i) = q
    THEN <<" ">> \o lines[i] \o Joined(lines, q, i + 1)
    ELSE Joined(lines, q, i + 1)

\* C29: in the question_segment branch every recognised line is assigned to
\* exactly one returned question, in order: a line whose first character is
\* a digit 1-9 or that has the question character among its first five
\* characters starts a new question and every other line is appended to the
\* current one; the returned index values are consecutive and increasing,
\* starting at 0 when lines precede the first question start and at 1
\* otherwise; and data.count is the number of questions returned.
C29_QuestionSegments ==
    ocr_data # <<>> =>
       LET data  == ocr_data[1]
           lines == words_result
           n     == Len(lines)
           first == IF n > 0 /\ ~StartsNewQuestion(lines[1]) THEN 0 ELSE 1
           last  == IF n = 0 THEN 0 ELSE QuestionOf(lines, n)
       IN  /\ data.count = Len(data.questions)
           /\ Len(data.questions) = IF n = 0 THEN 0 ELSE last - first + 1
           /\ \A k \in DOMAIN data.questions :
                 /\ data.questions[k].index = first + k - 1
                 /\ data.questions[k].content
                       = Strip(Joined(lines, first + k - 1, 1))
           /\ \A i \in 1..n :
                 \E k \in DOMAIN data.questions :
                    data.questions[k].index = QuestionOf(lines, i)

\* Three lines were answered as two questions: a line before the first
\* question start (index 0), then a question of two lines, the second of
\* which has the question character at position 6.
C29_Witness ==
    /\ ocr_data # <<>>
    /\ Len(words_result) = 3
    /\ ~QuestionStart(words_result[1])
    /\ words_result[2] = <<"1", "a">>
    /\ words_result[3] = <<"a", "a", "a", "a", "a", "题">>
    /\ ocr_data[1].count = 2
    /\ ocr_data[1].questions[1].index = 0
    /\ ocr_data[1].questions[2].content
          = <<"1", "a", " ", "a", "a", "a", "a", "a", "题">>

\* ---------------------------------------------------------------------
\* The primary scene and the distribution of one result, checked on Spec.

\* C30: "unknown" never appears in scene_distribution, its score being 0
\* throughout, and whenever primary_scene.type is not "unknown" the
\* distribution is non-empty and its first entry has the type of
\* primary_scene.
C30_PrimaryHeadsDistribution ==
    /\ scene_scores # <<>> => scene_scores["unknown"] = 0
    /\ result # <<>> =>
          LET primary_scene      == result[1].primary_scene
              scene_distribution == result[1].scene_distribution
          IN  /\ \A k \in DOMAIN scene_distribution :
                    scene_distribution[k].type # "unknown"
              /\ primary_scene.type # "unknown" =>
                    /\ Len(scene_distribution) >= 1
                    /\ scene_distribution[1].type = primary_scene.type

\* A result whose primary scene is not "unknown" and shares the highest
\* score with another scene, which follows it in the distribution.
C30_Witness ==
    /\ result # <<>>
    /\ result[1].primary_scene.type # "unknown"
    /\ Len(result[1].scene_distribution) >= 2
    /\ result[1].scene_distribution[1].type = result[1].primary_scene.type
    /\ scene_scores[result[1].scene_distribution[2].type]
          = scene_scores[result[1].primary_scene.type]

====
